---- MODULE Spec2Model ----
(***************************************************************************)
(* Model of the chat endpoint (src/app/api/chat/route.ts, POST) and of the *)
(* search endpoint it calls for web_search tool calls.                     *)
(*                                                                         *)
(* One behaviour is one chat request.  Each await of the handler is a      *)
(* step; a remote call either returns or throws, and what it returns is    *)
(* chosen by the environment.                                              *)
(***************************************************************************)
EXTENDS Integers, Sequences, FiniteSets, TLC

(***************************************************************************)
(* Bounds of the model.                                                    *)
(***************************************************************************)
\* The source sets maxRetries to 200 (route.ts:71); the poll budget of the
\* model is MaxPolls so that the budget can be exhausted in a finite check.
MaxPolls == 3
\* Longest tool_calls list a status fetch returns.
MaxToolCalls == 2
\* Most parts an assistant text is put together from.
MaxParts == 3
\* Most chat requests the client sends.
MaxRequests == 2

(***************************************************************************)
(* Values.                                                                 *)
(***************************************************************************)
\* undefined / null: a field or variable that holds no value.
Absent == "<absent>"

\* The null of a JSON body.
Null == "<null>"

\* JavaScript falsiness of a string-valued expression (!x, x || y).
Falsy(s) == s = Absent \/ s = "" \/ s = Null

\* Status values the loop keeps polling on (route.ts:76).
PollingStatuses == {"in_progress", "queued", "requires_action"}
\* Status values the handler treats as final (route.ts:176).
TerminalStatuses == {"completed", "failed", "cancelled"}
\* The status field of a run as the remote service may send it; "expired"
\* stands for the values the handler does not name.
RemoteStatuses == PollingStatuses \cup TerminalStatuses \cup {"expired"}

\* Thread ids: what a request may carry, and what create-thread returns.
RequestThreadIds == {Absent, "", "thread_A"}
NewThreadId == "thread_new"
NewRunId == "run_1"

\* Errors a remote call may throw: err.response.data.error.message and
\* err.message, either of which may be missing or empty.
RemoteErrors ==
  { [remote |-> "Invalid thread id", message |-> "Request failed with status code 400"],
    [remote |-> Absent, message |-> "Network Error"],
    [remote |-> "", message |-> "Request failed with status code 500"],
    [remote |-> Absent, message |-> ""] }

\* The kinds of remote assistant call.
CallKinds == {"createThread", "addMessage", "createRun", "fetchStatus",
              "submitToolOutputs", "cancelRun", "listMessages"}

(***************************************************************************)
(* Tool calls and their arguments.                                         *)
(***************************************************************************)
\* The raw arguments strings of a tool call: not JSON, no query, a query
\* alone, and a query with every optional field given (an empty domain list).
RawArguments ==
  { "{bad",
    "{}",
    "{\"query\":\"ai\"}",
    "{\"query\":\"ai\",\"max_results\":5,\"include_domains\":[]}" }

\* JSON.parse of an arguments string (route.ts:98): ok is FALSE when the
\* parse throws, and message is then the SyntaxError's message.
JSONParse(raw) ==
  CASE raw = "{}" ->
         [ok |-> TRUE, message |-> Absent, query |-> Absent, max_results |-> 0,
          has_domains |-> FALSE, include_domains |-> <<>>]
    [] raw = "{\"query\":\"ai\"}" ->
         [ok |-> TRUE, message |-> Absent, query |-> "ai", max_results |-> 0,
          has_domains |-> FALSE, include_domains |-> <<>>]
    [] raw = "{\"query\":\"ai\",\"max_results\":5,\"include_domains\":[]}" ->
         [ok |-> TRUE, message |-> Absent, query |-> "ai", max_results |-> 5,
          has_domains |-> TRUE, include_domains |-> <<>>]
    [] OTHER ->
         [ok |-> FALSE, message |-> "Unexpected token b in JSON at position 1",
          query |-> Absent, max_results |-> 0,
          has_domains |-> FALSE, include_domains |-> <<>>]

\* The id of the i-th tool call of a list: the remote service numbers them.
ToolCallId(i) == "call_" \o ToString(i)

\* interface ToolCall (route.ts:4): name and arguments are the function's.
ToolCallAt(i, fn) == [id |-> ToolCallId(i), name |-> fn.name, arguments |-> fn.arguments]

ToolFunctions ==
  { [name |-> "web_search", arguments |-> a] : a \in RawArguments }
    \cup { [name |-> "get_weather", arguments |-> "{}"] }

\* The tool_calls lists a status fetch may carry, the empty one included.
ToolCallLists ==
  UNION { { [i \in 1..n |-> ToolCallAt(i, f[i])] : f \in [1..n -> ToolFunctions] }
          : n \in 0..MaxToolCalls }

(***************************************************************************)
(* The search endpoint (POST of /api/search).                              *)
(***************************************************************************)
\* What the search provider may do with a request: answer OK with a full
\* payload or with one that lacks results and answer, answer non-OK, or
\* not answer at all (fetch throws).
ProviderOutcomes ==
  { [kind |-> "ok", has_results |-> TRUE, results |-> <<"r1">>, answer |-> "summary", status |-> 200, message |-> Absent],
    [kind |-> "ok", has_results |-> FALSE, results |-> <<>>, answer |-> Absent, status |-> 200, message |-> Absent],
    [kind |-> "status", has_results |-> FALSE, results |-> <<>>, answer |-> Absent, status |-> 401, message |-> Absent],
    [kind |-> "status", has_results |-> FALSE, results |-> <<>>, answer |-> Absent, status |-> 503, message |-> Absent],
    [kind |-> "throw", has_results |-> FALSE, results |-> <<>>, answer |-> Absent, status |-> 0, message |-> "fetch failed"] }

NoProviderRequest ==
  [sent |-> FALSE, query |-> Absent, max_results |-> 0,
   has_include_domains |-> FALSE, include_domains |-> <<>>]

\* A response of the search endpoint; cache is Absent when the handler sets
\* no Cache-Control header, provider is the request it sent to the provider.
SearchResponse(status, error, results, answer, cache, provider) ==
  [status |-> status, error |-> error, results |-> results, answer |-> answer,
   cache |-> cache, provider |-> provider]

\* The body the provider is sent: include_domains only when non-empty.
TavilyRequest(body) ==
  [sent |-> TRUE, query |-> body.query, max_results |-> body.max_results,
   has_include_domains |-> Len(body.include_domains) > 0,
   include_domains |-> body.include_domains]

\* The catch block of the search endpoint.
SearchErrorResponse(message, provider) ==
  SearchResponse(500, IF Falsy(message) THEN "Search failed" ELSE message,
                 <<>>, Absent, "no-cache", provider)

\* SearchPOST that does not test response.ok.
SearchPOSTIgnoresStatus(body, keyPresent, outcome) ==
  IF Falsy(body.query)
    THEN SearchResponse(400, "Query required", <<>>, Absent, Absent, NoProviderRequest)
  ELSE IF ~keyPresent
    THEN SearchResponse(500, "Tavily API key missing", <<>>, Absent, Absent, NoProviderRequest)
  ELSE IF outcome.kind = "throw"
    THEN SearchErrorResponse(outcome.message, TavilyRequest(body))
  ELSE SearchResponse(200, Absent,
                      IF outcome.has_results THEN outcome.results ELSE <<>>,
                      IF Falsy(outcome.answer) THEN Null ELSE outcome.answer,
                      "s-maxage=600, stale-while-revalidate=1200",
                      TavilyRequest(body))

\* SearchPOST that checks the provider key before the query.
SearchPOSTKeyFirst(body, keyPresent, outcome) ==
  IF ~keyPresent
    THEN SearchResponse(500, "Tavily API key missing", <<>>, Absent, Absent, NoProviderRequest)
  ELSE IF Falsy(body.query)
    THEN SearchResponse(400, "Query required", <<>>, Absent, Absent, NoProviderRequest)
  ELSE IF outcome.kind = "throw"
    THEN SearchErrorResponse(outcome.message, TavilyRequest(body))
  ELSE IF outcome.kind = "status"
    THEN SearchErrorResponse("Tavily API error: " \o ToString(outcome.status),
                             TavilyRequest(body))
  ELSE SearchResponse(200, Absent,
                      IF outcome.has_results THEN outcome.results ELSE <<>>,
                      IF Falsy(outcome.answer) THEN Null ELSE outcome.answer,
                      "s-maxage=600, stale-while-revalidate=1200",
                      TavilyRequest(body))

\* POST of the search endpoint: body is the decoded request with the
\* destructuring defaults applied, keyPresent says whether TAVILY_API_KEY is
\* set, outcome is what the provider does if it is called.
SearchPOST(body, keyPresent, outcome) ==
  IF Falsy(body.query)
    THEN SearchResponse(400, "Query required", <<>>, Absent, Absent, NoProviderRequest)
  ELSE IF ~keyPresent
    THEN SearchResponse(500, "Tavily API key missing", <<>>, Absent, Absent, NoProviderRequest)
  ELSE IF outcome.kind = "throw"
    THEN SearchErrorResponse(outcome.message, TavilyRequest(body))
  ELSE IF outcome.kind = "status"
    THEN SearchErrorResponse("Tavily API error: " \o ToString(outcome.status),
                             TavilyRequest(body))
  ELSE SearchResponse(200, Absent,
                      IF outcome.has_results THEN outcome.results ELSE <<>>,
                      IF Falsy(outcome.answer) THEN Null ELSE outcome.answer,
                      "s-maxage=600, stale-while-revalidate=1200",
                      TavilyRequest(body))

\* The destructuring of the request body with its defaults
\* (max_results = 3, include_domains = []): a max_results of 0 and a FALSE
\* has_domains stand for a body without the key.
Destructure(req) ==
  [query |-> req.query,
   max_results |-> IF req.max_results = 0 THEN 3 ELSE req.max_results,
   include_domains |-> IF req.has_domains THEN req.include_domains ELSE <<>>]

\* The destructuring of the earlier version of the handler
\* (include_domains = ["ey.com"]).
DestructureEarlier(req) ==
  [query |-> req.query,
   max_results |-> IF req.max_results = 0 THEN 3 ELSE req.max_results,
   include_domains |-> IF req.has_domains THEN req.include_domains ELSE <<"ey.com">>]

\* The body the earlier version sends the provider: include_domains always.
TavilyRequestEarlier(body) ==
  [sent |-> TRUE, query |-> body.query, max_results |-> body.max_results,
   has_include_domains |-> TRUE,
   include_domains |-> body.include_domains]

\* POST of the earlier version of the search endpoint.
SearchPOSTEarlier(body, keyPresent, outcome) ==
  IF Falsy(body.query)
    THEN SearchResponse(400, "Query required", <<>>, Absent, Absent, NoProviderRequest)
  ELSE IF ~keyPresent
    THEN SearchResponse(500, "Tavily API key missing", <<>>, Absent, Absent, NoProviderRequest)
  ELSE IF outcome.kind = "throw"
    THEN SearchErrorResponse(outcome.message, TavilyRequestEarlier(body))
  ELSE IF outcome.kind = "status"
    THEN SearchErrorResponse("Tavily API error: " \o ToString(outcome.status),
                             TavilyRequestEarlier(body))
  ELSE SearchResponse(200, Absent,
                      IF outcome.has_results THEN outcome.results ELSE <<>>,
                      IF Falsy(outcome.answer) THEN Null ELSE outcome.answer,
                      "s-maxage=600, stale-while-revalidate=1200",
                      TavilyRequestEarlier(body))

(***************************************************************************)
(* Servicing one tool call (the callback of toolCalls.map, route.ts:95).   *)
(***************************************************************************)
\* The decoded payload of a ToolOutput: fields names the keys of the
\* encoded object.
Payload(fields, error, results, answer, query) ==
  [fields |-> fields, error |-> error, results |-> results, answer |-> answer,
   query |-> query]

ToolOutput(id, payload) == [tool_call_id |-> id, output |-> payload]

\* SearchErrorOutput without the empty result list.
SearchErrorOutputNoResults(toolCall, errorMessage) ==
  ToolOutput(toolCall.id, Payload({"error"}, errorMessage, <<>>, Absent, Absent))

\* The catch block of the web_search branch (route.ts:140).
SearchErrorOutput(toolCall, errorMessage) ==
  ToolOutput(toolCall.id, Payload({"error", "results"}, errorMessage, <<>>, Absent, Absent))

\* UnknownFunctionOutput with the payload shape of the search branch.
UnknownFunctionOutputAsSearchError(toolCall) ==
  ToolOutput(toolCall.id, Payload({"error", "results"}, "Unknown error", <<>>, Absent, Absent))

\* The last return of the callback (route.ts:153).
UnknownFunctionOutput(toolCall) ==
  ToolOutput(toolCall.id, Payload({"error"}, "Unknown function", <<>>, Absent, Absent))

\* SearchRequestBody that replaces an empty domain list by the default too.
SearchRequestBodyDefaultsEmpty(args) ==
  [query |-> args.query,
   max_results |-> IF args.max_results = 0 THEN 3 ELSE args.max_results,
   include_domains |-> IF args.has_domains /\ args.include_domains # <<>>
                         THEN args.include_domains ELSE <<"ey.com">>]

\* The body of the request to the search endpoint (route.ts:112), as the
\* endpoint destructures it: max_results || 3, include_domains || ["ey.com"].
SearchRequestBody(args) ==
  [query |-> args.query,
   max_results |-> IF args.max_results = 0 THEN 3 ELSE args.max_results,
   include_domains |-> IF args.has_domains THEN args.include_domains ELSE <<"ey.com">>]

\* What the network does with the call of the search endpoint.
NetworkOutcomes == {"reached", "unreachable"}

\* ServiceToolCall that passes on the error text of the search response.
ServiceToolCallForwardsError(toolCall, keyPresent, net, outcome) ==
  IF toolCall.name = "web_search"
    THEN LET args == JSONParse(toolCall.arguments)
             searchData == SearchPOST(SearchRequestBody(args), keyPresent, outcome)
         IN  IF ~args.ok THEN SearchErrorOutput(toolCall, args.message)
             ELSE IF net = "unreachable" THEN SearchErrorOutput(toolCall, "fetch failed")
             ELSE IF searchData.status # 200
               THEN SearchErrorOutput(toolCall, searchData.error)
             ELSE ToolOutput(toolCall.id,
                             Payload({"results", "answer", "query"}, Absent,
                                     searchData.results,
                                     IF Falsy(searchData.answer) THEN Null
                                                                 ELSE searchData.answer,
                                     args.query))
    ELSE UnknownFunctionOutput(toolCall)

\* The callback for one tool call: net and outcome are the environment's
\* choices for the search call and the provider call, if they are made.
ServiceToolCall(toolCall, keyPresent, net, outcome) ==
  IF toolCall.name = "web_search"
    THEN LET args == JSONParse(toolCall.arguments)
             searchData == SearchPOST(SearchRequestBody(args), keyPresent, outcome)
         IN  IF ~args.ok THEN SearchErrorOutput(toolCall, args.message)
             ELSE IF net = "unreachable" THEN SearchErrorOutput(toolCall, "fetch failed")
             ELSE IF searchData.status # 200
               THEN SearchErrorOutput(toolCall, "Search failed: " \o ToString(searchData.status))
             ELSE ToolOutput(toolCall.id,
                             Payload({"results", "answer", "query"}, Absent,
                                     searchData.results,
                                     IF Falsy(searchData.answer) THEN Null
                                                                 ELSE searchData.answer,
                                     args.query))
    ELSE UnknownFunctionOutput(toolCall)

\* How the servicing of the call fails: the arguments do not decode
\* (route.ts:98), the search endpoint is unreachable (route.ts:109) or it
\* answers non-OK (route.ts:119); Absent when nothing fails.
ServiceFailure(toolCall, keyPresent, net, outcome) ==
  IF toolCall.name # "web_search" THEN Absent
  ELSE IF ~JSONParse(toolCall.arguments).ok THEN "decode"
  ELSE IF net = "unreachable" THEN "unreachable"
  ELSE IF SearchPOST(SearchRequestBody(JSONParse(toolCall.arguments)),
                     keyPresent, outcome).status # 200 THEN "status"
  ELSE Absent

\* No search request was made for the tool call.
NoSearchBody == [query |-> Absent, max_results |-> 0, include_domains |-> <<>>]

\* The body of the search request servicing the call makes (route.ts:109-117),
\* if it makes one.
SearchBodyOf(toolCall) ==
  IF toolCall.name = "web_search" /\ JSONParse(toolCall.arguments).ok
    THEN SearchRequestBody(JSONParse(toolCall.arguments))
    ELSE NoSearchBody

\* Whether servicing the call issues a request to the search endpoint.
CallsSearch(toolCall) ==
  toolCall.name = "web_search" /\ JSONParse(toolCall.arguments).ok

\* Whether the search request made for the call is answered by the early
\* return for a missing provider key (route.ts:109 reaching the search
\* endpoint's credential check).
KeyMissingMet(toolCall, keyPresent, net) ==
  /\ CallsSearch(toolCall)
  /\ net = "reached"
  /\ ~Falsy(JSONParse(toolCall.arguments).query)
  /\ ~keyPresent

(***************************************************************************)
(* The reply of a completed run (route.ts:204-225).                        *)
(***************************************************************************)
\* A text is a sequence of characters.  The characters of the citation
\* marker are written "[" for the opening bracket, "]" for the closing
\* bracket and "+" for the dagger; a fixed reply of the handler is a text
\* of one element, the whole literal.
Digits == {"1", "2"}

RECURSIVE DigitRun(_, _)
\* The number of consecutive digits of t from position j on.
DigitRun(t, j) ==
  IF j <= Len(t) /\ t[j] \in Digits THEN 1 + DigitRun(t, j + 1) ELSE 0

RECURSIVE NonCloseRun(_, _)
\* The number of consecutive characters other than "]" of t from j on.
NonCloseRun(t, j) ==
  IF j <= Len(t) /\ t[j] # "]" THEN 1 + NonCloseRun(t, j + 1) ELSE 0

\* The position after the match of the citation pattern that starts at i,
\* or 0 when the pattern does not match there.
MatchEnd(t, i) ==
  LET d1 == DigitRun(t, i + 1)
      c  == i + 1 + d1
      d2 == DigitRun(t, c + 1)
      g  == c + 1 + d2
      n  == NonCloseRun(t, g + 1)
      e  == g + 1 + n
  IN  IF /\ i <= Len(t) /\ t[i] = "["
         /\ d1 >= 1 /\ c <= Len(t) /\ t[c] = ":"
         /\ d2 >= 1 /\ g <= Len(t) /\ t[g] = "+"
         /\ n >= 1 /\ e <= Len(t) /\ t[e] = "]"
        THEN e + 1
        ELSE 0

RECURSIVE StripFrom(_, _)
\* t from position i on, every match of the pattern removed, leftmost first.
StripFrom(t, i) ==
  IF i > Len(t) THEN <<>>
  ELSE IF MatchEnd(t, i) > 0 THEN StripFrom(t, MatchEnd(t, i))
  ELSE <<t[i]>> \o StripFrom(t, i + 1)

\* value.replace(/pattern/g, "") (route.ts:212).
StripCitations(t) == StripFrom(t, 1)

\* FindAssistant that takes the first entry of the list, whatever its role.
FindAssistantFirstEntry(data, i) == IF i > Len(data) THEN 0 ELSE i

RECURSIVE FindAssistant(_, _)
\* data.find(m => m.role === "assistant"): the index of the first assistant
\* message from i on, or 0.
FindAssistant(data, i) ==
  IF i > Len(data) THEN 0
  ELSE IF data[i].role = "assistant" THEN i
  ELSE FindAssistant(data, i + 1)

\* CompletedReply that keeps the initial reply text when no text is found.
CompletedReplyKeepsInitial(data) ==
  LET k == FindAssistant(data, 1)
  IN  IF k = 0 \/ ~data[k].has_text \/ StripCitations(data[k].value) = <<>>
        THEN <<"No response received.">>
        ELSE StripCitations(data[k].value)

\* The reply of a completed run from the listed messages.
CompletedReply(data) ==
  LET k == FindAssistant(data, 1)
  IN  IF k = 0 \/ ~data[k].has_text \/ StripCitations(data[k].value) = <<>>
        THEN <<"No valid response.">>
        ELSE StripCitations(data[k].value)

\* The reply of a run that left the loop with a final status; data is the
\* message list, fetched only for a completed run.
FinalReply(st, data) ==
  CASE st = "completed" -> CompletedReply(data)
    [] st = "failed" -> <<"The assistant encountered an error. Please try again.">>
    [] st = "cancelled" -> <<"Request was cancelled. Please try again.">>
    [] OTHER -> <<"Unexpected error occurred. Please try again.">>

Msg(role, has_text, value) == [role |-> role, has_text |-> has_text, value |-> value]

\* The parts assistant texts are put together from: a plain character, a
\* whole citation marker, and the two pieces a marker falls into when it is
\* cut after its first colon.
TextParts ==
  { <<"A">>,
    <<"[", "1", ":", "2", "+", "s", "]">>,
    <<"[", "1", ":">>,
    <<"2", "+", "s", "]">> }

RECURSIVE TextsOf(_)
\* The texts of at most n parts.
TextsOf(n) ==
  IF n = 0 THEN {<<>>}
  ELSE TextsOf(n - 1) \cup { p \o t : p \in TextParts, t \in TextsOf(n - 1) }

\* The values of text.value the remote service may return (route.ts:210-212).
Texts == TextsOf(MaxParts)

\* The message lists the remote service may return, newest first.
MessageLists ==
  { <<Msg("assistant", TRUE, t)>> : t \in Texts } \cup
  { <<Msg("assistant", TRUE, <<"H", "i">>), Msg("user", TRUE, <<"q">>)>>,
    <<Msg("user", TRUE, <<"q">>), Msg("assistant", TRUE, <<"A", "[", "1", ":", "2", "+", "s", "]">>)>>,
    <<Msg("assistant", TRUE, <<"[", "1", ":", "2", "+", "s", "]">>)>>,
    <<Msg("assistant", FALSE, <<>>)>>,
    <<Msg("user", TRUE, <<"q">>)>>,
    <<>> }

(***************************************************************************)
(* Responses of the chat endpoint.                                         *)
(***************************************************************************)
\* A response: http is the status code, the body holds error, reply and
\* threadId (Absent or the empty text when the body lacks the key), cache
\* is the Cache-Control header (Absent when none is set).
Response(http, error, reply, tid, cache) ==
  [http |-> http, error |-> error, reply |-> reply, threadId |-> tid, cache |-> cache]

NoResponse == Response(0, Absent, <<>>, Absent, Absent)

CacheableDirective == "s-maxage=120, stale-while-revalidate=300"
NoCacheDirective == "no-cache"

\* route.ts:27.
MissingCredentialsResponse ==
  Response(500, "Missing OpenAI credentials", <<>>, Absent, Absent)

\* ErrorMessage with the transport message taken first.
ErrorMessageTransportFirst(err) ==
  IF ~Falsy(err.message) THEN err.message
  ELSE IF ~Falsy(err.remote) THEN err.remote
  ELSE "Unknown error"

\* route.ts:246: error.response?.data?.error?.message || error.message || "Unknown error".
ErrorMessage(err) ==
  IF ~Falsy(err.remote) THEN err.remote
  ELSE IF ~Falsy(err.message) THEN err.message
  ELSE "Unknown error"

\* The catch block of the handler (route.ts:240-250).
ErrorResponse(err) ==
  Response(500, ErrorMessage(err), <<>>, Absent, NoCacheDirective)

\* TimeoutResponse without the threadId.
TimeoutResponseNoThread(tid) ==
  Response(504,
           "Request timeout. The assistant is taking longer than expected. Please try again.",
           <<>>, Absent, NoCacheDirective)

\* route.ts:192-199.
TimeoutResponse(tid) ==
  Response(504,
           "Request timeout. The assistant is taking longer than expected. Please try again.",
           <<>>, tid, NoCacheDirective)

\* FinalResponse that marks every reply cacheable.
FinalResponseAlwaysCacheable(st, data, tid) ==
  Response(200, Absent, FinalReply(st, data), tid, CacheableDirective)

\* FinalResponse that marks a completed run cacheable only when it has a
\* reply of its own.
FinalResponseCachesReplyOnly(st, data, tid) ==
  Response(200, Absent, FinalReply(st, data), tid,
           IF st = "completed" /\ FinalReply(st, data) # <<"No valid response.">>
             THEN CacheableDirective ELSE NoCacheDirective)

\* route.ts:228-236.
FinalResponse(st, data, tid) ==
  Response(200, Absent, FinalReply(st, data), tid,
           IF st = "completed" THEN CacheableDirective ELSE NoCacheDirective)

(***************************************************************************)
(* State of one chat request.                                              *)
(***************************************************************************)
VARIABLES
  env,              \* which environment variables are set
  bodyOk,           \* whether the request body decodes (req.json())
  threadId,         \* the threadId of the request body
  pc,               \* where the handler is
  currentThreadId,  \* route.ts:40
  runId,            \* route.ts:68
  status,           \* route.ts:69
  retries,          \* route.ts:70
  toolCalls,        \* route.ts:89, of the poll being handled
  toolOutputs,      \* route.ts:94, one slot per tool call
  searched,         \* the tool calls whose servicing called the search endpoint
  failures,         \* per tool call, how its servicing failed, if it did
  response,         \* what the handler returned
  calls,            \* how many remote calls of each kind were issued
  callThreads,      \* the thread ids in the URLs of the calls issued
  lastFetched,      \* the status the last status fetch returned
  terminalFetched,  \* whether some status fetch returned a final status
  cancelResult,     \* how the cancel call ended
  rounds,           \* how many status fetches returned tool calls to service
  thrown,           \* the call that threw to the catch block, and what it threw
  messages,         \* route.ts:208, the message list the remote service returned
  keyMissingServed, \* whether a search for a tool call met the missing provider key
  searchBodies,     \* per tool call, the body of the search request made for it
  sreq,             \* the body of a request to the search endpoint
  skey,             \* whether TAVILY_API_KEY is set for that request
  spc,              \* where the search handler is
  shandler,         \* which version of the search handler answered
  sres,             \* what the search handler returned
  soutcome,         \* what the search provider did with the handler's request
  user,             \* the email of the user object given to the signIn callback
  profile,          \* the email of the profile object given to it
  apc,              \* where the sign-in is
  signedIn,         \* what the signIn callback returned
  client,           \* the React state of ChatApp
  view,             \* the state the handlers of the last render close over
  localStorage,     \* the browser's localStorage
  requests,         \* the chat requests the client has sent
  cleared           \* whether Clear was clicked since the last message was sent

\* The state of a request made to the search endpoint itself.
searchVars == <<sreq, skey, spc, shandler, sres, soutcome>>

\* The state of a sign-in.
authVars == <<user, profile, apc, signedIn>>

\* The state of the client and of the requests it has sent.
clientVars == <<client, view, localStorage, requests, cleared>>

vars == <<authVars, clientVars, env, bodyOk, threadId, pc, currentThreadId, runId, status, retries, toolCalls,
          toolOutputs, searched, failures, response, calls, callThreads,
          lastFetched, terminalFetched, cancelResult, rounds, thrown, messages,
          keyMissingServed, searchBodies, searchVars>>

\* route.ts:71 (200 in the source).
maxRetries == MaxPolls

\* A slot of toolOutputs whose callback has not returned yet.
Pending == ToolOutput(Absent, Payload({}, Absent, <<>>, Absent, Absent))

\* What req.json() throws on a body that is not JSON (route.ts:20).
BodyError == [remote |-> Absent, message |-> "Unexpected end of JSON input"]

\* localStorage without the keys of the client.
EmptyStorage == [chatHistory |-> [has |-> FALSE, items |-> <<>>], threadId |-> Absent]

\* The React state of a page that is not open.
NoClient ==
  [messages |-> <<>>, threadId |-> Null, activeRun |-> FALSE, loading |-> FALSE,
   input |-> ""]

\* Nothing has been thrown to the catch block.
NoThrow == [kind |-> Absent, err |-> [remote |-> Absent, message |-> Absent]]

\* No sign-in is being handled.
AuthIdle ==
  /\ user = Absent
  /\ profile = Absent
  /\ apc = "idle"
  /\ signedIn = FALSE

\* No page of the client is open.
ClientIdle ==
  /\ client = NoClient
  /\ view = NoClient
  /\ localStorage = EmptyStorage
  /\ requests = <<>>
  /\ cleared = FALSE

\* No request has been made to the search endpoint itself.
NoSearchRequest ==
  [ok |-> FALSE, query |-> Absent, max_results |-> 0, has_domains |-> FALSE,
   include_domains |-> <<>>]

NoSearchResponse == SearchResponse(0, Absent, <<>>, Absent, Absent, NoProviderRequest)

\* The search provider was not called.
NoProviderOutcome ==
  [kind |-> Absent, has_results |-> FALSE, results |-> <<>>, answer |-> Absent,
   status |-> 0, message |-> Absent]

SearchIdle ==
  /\ sreq = NoSearchRequest
  /\ skey = FALSE
  /\ spc = "idle"
  /\ shandler = Absent
  /\ sres = NoSearchResponse
  /\ soutcome = NoProviderOutcome

Init ==
  /\ env \in [OPENAI_API_KEY : BOOLEAN, OPENAI_ASSISTANT_ID : BOOLEAN,
              TAVILY_API_KEY : BOOLEAN]
  /\ bodyOk \in BOOLEAN
  /\ threadId \in IF bodyOk THEN RequestThreadIds ELSE {Absent}
  /\ pc = "start"
  /\ currentThreadId = Absent
  /\ runId = Absent
  /\ status = Absent
  /\ retries = 0
  /\ toolCalls = <<>>
  /\ toolOutputs = <<>>
  /\ searched = {}
  /\ failures = <<>>
  /\ response = NoResponse
  /\ calls = [k \in CallKinds |-> 0]
  /\ callThreads = {}
  /\ lastFetched = Absent
  /\ terminalFetched = FALSE
  /\ cancelResult = Absent
  /\ rounds = 0
  /\ thrown = NoThrow
  /\ messages = <<>>
  /\ keyMissingServed = FALSE
  /\ searchBodies = <<>>
  /\ SearchIdle
  /\ AuthIdle
  /\ ClientIdle

\* One more remote call of the kind, on the current thread.
Issue(kind) ==
  /\ calls' = [calls EXCEPT ![kind] = @ + 1]
  /\ callThreads' = IF kind = "createThread" THEN callThreads
                    ELSE callThreads \cup {currentThreadId}

\* LoopCondition that lets one poll too many through.
LoopConditionOffByOne == status \in PollingStatuses /\ retries <= maxRetries

\* The condition of the polling loop (route.ts:76).
LoopCondition == status \in PollingStatuses /\ retries < maxRetries

(***************************************************************************)
(* The steps of the handler.                                               *)
(***************************************************************************)
\* CheckCredentials that tests the API key only.
CheckCredentialsKeyOnly ==
  /\ pc = "start"
  /\ IF ~bodyOk
       THEN /\ response' = ErrorResponse(BodyError)
            /\ thrown' = [kind |-> "requestBody", err |-> BodyError]
            /\ pc' = "done"
       ELSE IF ~env.OPENAI_API_KEY
       THEN /\ response' = MissingCredentialsResponse
            /\ pc' = "done"
            /\ UNCHANGED thrown
       ELSE /\ pc' = "thread"
            /\ UNCHANGED <<response, thrown>>
  /\ UNCHANGED <<authVars, clientVars, searchVars, searchBodies, messages, keyMissingServed,
                 env, bodyOk, threadId, currentThreadId, runId, status, retries,
                 toolCalls, toolOutputs, searched, failures, calls, callThreads,
                 lastFetched, terminalFetched, cancelResult, rounds>>

\* route.ts:20-37.
CheckCredentials ==
  /\ pc = "start"
  /\ IF ~bodyOk
       THEN /\ response' = ErrorResponse(BodyError)
            /\ thrown' = [kind |-> "requestBody", err |-> BodyError]
            /\ pc' = "done"
       ELSE IF ~env.OPENAI_API_KEY \/ ~env.OPENAI_ASSISTANT_ID
       THEN /\ response' = MissingCredentialsResponse
            /\ pc' = "done"
            /\ UNCHANGED thrown
       ELSE /\ pc' = "thread"
            /\ UNCHANGED <<response, thrown>>
  /\ UNCHANGED <<authVars, clientVars, searchVars, searchBodies, messages, keyMissingServed,
                 env, bodyOk, threadId, currentThreadId, runId, status, retries,
                 toolCalls, toolOutputs, searched, failures, calls, callThreads,
                 lastFetched, terminalFetched, cancelResult, rounds>>

\* GetOrCreateThread that creates a thread whatever the request carries.
GetOrCreateThreadAlwaysCreates ==
  /\ pc = "thread"
  /\ Issue("createThread")
  /\ currentThreadId' = NewThreadId
  /\ pc' = "message"
  /\ UNCHANGED <<authVars, clientVars, searchVars, searchBodies, messages, keyMissingServed,
                 env, bodyOk, threadId, runId, status, retries, toolCalls, toolOutputs,
                 searched, failures, response, lastFetched, terminalFetched,
                 cancelResult, rounds, thrown>>

\* GetOrCreateThread that does not keep the id of the thread it created.
GetOrCreateThreadDropsId ==
  /\ pc = "thread"
  /\ IF Falsy(threadId)
       THEN /\ Issue("createThread")
            /\ currentThreadId' = threadId
       ELSE /\ currentThreadId' = threadId
            /\ UNCHANGED <<calls, callThreads>>
  /\ pc' = "message"
  /\ UNCHANGED <<authVars, clientVars, searchVars, searchBodies, messages, keyMissingServed,
                 env, bodyOk, threadId, runId, status, retries, toolCalls, toolOutputs,
                 searched, failures, response, lastFetched, terminalFetched,
                 cancelResult, rounds, thrown>>

\* route.ts:39-51.
GetOrCreateThread ==
  /\ pc = "thread"
  /\ IF Falsy(threadId)
       THEN /\ Issue("createThread")
            /\ currentThreadId' = NewThreadId
       ELSE /\ currentThreadId' = threadId
            /\ UNCHANGED <<calls, callThreads>>
  /\ pc' = "message"
  /\ UNCHANGED <<authVars, clientVars, searchVars, searchBodies, messages, keyMissingServed,
                 env, bodyOk, threadId, runId, status, retries, toolCalls, toolOutputs,
                 searched, response, lastFetched, terminalFetched, cancelResult, rounds, thrown, failures>>

\* route.ts:53-59.
AddMessage ==
  /\ pc = "message"
  /\ Issue("addMessage")
  /\ pc' = "run"
  /\ UNCHANGED <<authVars, clientVars, searchVars, searchBodies, messages, keyMissingServed,
                 env, bodyOk, threadId, currentThreadId, runId, status, retries, toolCalls,
                 toolOutputs, searched, response, lastFetched, terminalFetched,
                 cancelResult, rounds, thrown, failures>>

\* CreateRun that goes on to the first status fetch without sleeping.
CreateRunPollsAtOnce ==
  /\ pc = "run"
  /\ Issue("createRun")
  /\ runId' = NewRunId
  /\ status' = "in_progress"
  /\ retries' = 0
  /\ pc' = "fetch"
  /\ UNCHANGED <<authVars, clientVars, searchVars, searchBodies, messages, keyMissingServed,
                 env, bodyOk, threadId, currentThreadId, toolCalls, toolOutputs, searched,
                 response, lastFetched, terminalFetched, cancelResult, rounds, thrown, failures>>

\* route.ts:61-73.
CreateRun ==
  /\ pc = "run"
  /\ Issue("createRun")
  /\ runId' = NewRunId
  /\ status' = "in_progress"
  /\ retries' = 0
  /\ pc' = "loop"
  /\ UNCHANGED <<authVars, clientVars, searchVars, searchBodies, messages, keyMissingServed,
                 env, bodyOk, threadId, currentThreadId, toolCalls, toolOutputs, searched,
                 response, lastFetched, terminalFetched, cancelResult, rounds, thrown, failures>>

\* route.ts:76-77: the loop is entered and the handler sleeps.
Sleep ==
  /\ pc = "loop"
  /\ LoopCondition
  /\ pc' = "fetch"
  /\ UNCHANGED <<authVars, clientVars, searchVars, searchBodies, messages, keyMissingServed,
                 env, bodyOk, threadId, currentThreadId, runId, status, retries, toolCalls,
                 toolOutputs, searched, response, calls, callThreads, lastFetched,
                 terminalFetched, cancelResult, rounds, thrown, failures>>

\* FetchStatus that starts a tool round for an empty tool_calls list too.
FetchStatusDispatchesEmpty ==
  /\ pc = "fetch"
  /\ \E s \in RemoteStatuses :
       \E tc \in IF s = "requires_action" THEN ToolCallLists ELSE {<<>>} :
         /\ Issue("fetchStatus")
         /\ status' = s
         /\ lastFetched' = s
         /\ terminalFetched' = (terminalFetched \/ s \in TerminalStatuses)
         /\ IF s = "requires_action"
              THEN /\ toolCalls' = tc
                   /\ toolOutputs' = [i \in 1..Len(tc) |-> Pending]
                   /\ failures' = [i \in 1..Len(tc) |-> Absent]
                   /\ searchBodies' = [i \in 1..Len(tc) |-> NoSearchBody]
                   /\ rounds' = rounds + 1
                   /\ pc' = "dispatch"
                   /\ UNCHANGED retries
              ELSE /\ retries' = retries + 1
                   /\ pc' = "loop"
                   /\ UNCHANGED <<toolCalls, toolOutputs, failures, rounds, searchBodies>>
  /\ UNCHANGED <<authVars, clientVars, searchVars, messages, keyMissingServed,
                 env, bodyOk, threadId, currentThreadId, runId, searched, response,
                 cancelResult, thrown>>

\* route.ts:79-91 and, when there is nothing to service, route.ts:172.
FetchStatus ==
  /\ pc = "fetch"
  /\ \E s \in RemoteStatuses :
       \E tc \in IF s = "requires_action" THEN ToolCallLists ELSE {<<>>} :
         /\ Issue("fetchStatus")
         /\ status' = s
         /\ lastFetched' = s
         /\ terminalFetched' = (terminalFetched \/ s \in TerminalStatuses)
         /\ IF s = "requires_action" /\ Len(tc) > 0
              THEN /\ toolCalls' = tc
                   /\ toolOutputs' = [i \in 1..Len(tc) |-> Pending]
                   /\ failures' = [i \in 1..Len(tc) |-> Absent]
                   /\ searchBodies' = [i \in 1..Len(tc) |-> NoSearchBody]
                   /\ rounds' = rounds + 1
                   /\ pc' = "dispatch"
                   /\ UNCHANGED retries
              ELSE /\ retries' = retries + 1
                   /\ pc' = "loop"
                   /\ UNCHANGED <<toolCalls, toolOutputs, failures, rounds, searchBodies>>
  /\ UNCHANGED <<authVars, clientVars, searchVars, messages, keyMissingServed,
                 env, bodyOk, threadId, currentThreadId, runId, searched, response,
                 cancelResult, thrown>>

\* ServiceOne that puts each output into the first free slot, in the order
\* the callbacks return.
ServiceOneInCompletionOrder ==
  /\ pc = "dispatch"
  /\ \E i \in 1..Len(toolCalls) :
       /\ ~(toolCalls[i].id \in { toolOutputs[j].tool_call_id : j \in 1..Len(toolOutputs) })
       /\ LET slot == CHOOSE j \in 1..Len(toolOutputs) :
                        /\ toolOutputs[j] = Pending
                        /\ \A m \in 1..(j - 1) : toolOutputs[m] # Pending
          IN  \E net \in NetworkOutcomes, outcome \in ProviderOutcomes :
                /\ toolOutputs' = [toolOutputs EXCEPT
                                     ![slot] = ServiceToolCall(toolCalls[i], env.TAVILY_API_KEY,
                                                               net, outcome)]
                /\ failures' = [failures EXCEPT
                                  ![slot] = ServiceFailure(toolCalls[i], env.TAVILY_API_KEY,
                                                           net, outcome)]
                /\ keyMissingServed' =
                     (keyMissingServed
                        \/ KeyMissingMet(toolCalls[i], env.TAVILY_API_KEY, net))
       /\ searchBodies' = [searchBodies EXCEPT ![i] = SearchBodyOf(toolCalls[i])]
       /\ searched' = IF CallsSearch(toolCalls[i]) THEN searched \cup {i} ELSE searched
  /\ UNCHANGED <<authVars, clientVars, searchVars, messages,
                 env, bodyOk, threadId, pc, currentThreadId, runId, status, retries,
                 toolCalls, response, calls, callThreads, lastFetched,
                 terminalFetched, cancelResult, rounds, thrown>>

\* route.ts:95-157: the callback of one tool call returns.
ServiceOne ==
  /\ pc = "dispatch"
  /\ \E i \in 1..Len(toolCalls) :
       /\ toolOutputs[i] = Pending
       /\ \E net \in NetworkOutcomes, outcome \in ProviderOutcomes :
            /\ toolOutputs' = [toolOutputs EXCEPT
                                 ![i] = ServiceToolCall(toolCalls[i], env.TAVILY_API_KEY,
                                                        net, outcome)]
            /\ failures' = [failures EXCEPT
                              ![i] = ServiceFailure(toolCalls[i], env.TAVILY_API_KEY,
                                                    net, outcome)]
            /\ keyMissingServed' =
                 (keyMissingServed
                    \/ KeyMissingMet(toolCalls[i], env.TAVILY_API_KEY, net))
       /\ searchBodies' = [searchBodies EXCEPT ![i] = SearchBodyOf(toolCalls[i])]
       /\ searched' = IF CallsSearch(toolCalls[i]) THEN searched \cup {i} ELSE searched
  /\ UNCHANGED <<authVars, clientVars, searchVars, messages,
                 env, bodyOk, threadId, pc, currentThreadId, runId, status, retries,
                 toolCalls, response, calls, callThreads, lastFetched,
                 terminalFetched, cancelResult, rounds, thrown>>

\* SubmitToolOutputs that moves on without posting the batch.
SubmitToolOutputsSkipsCall ==
  /\ pc = "dispatch"
  /\ \A i \in 1..Len(toolCalls) : toolOutputs[i] # Pending
  /\ pc' = "submit"
  /\ UNCHANGED <<authVars, clientVars, searchVars, searchBodies, messages, keyMissingServed,
                 env, bodyOk, threadId, currentThreadId, runId, status, retries, toolCalls,
                 toolOutputs, searched, response, calls, callThreads, lastFetched,
                 terminalFetched, cancelResult, rounds, thrown, failures>>

\* SubmitToolOutputs that posts as soon as one callback has returned.
SubmitToolOutputsEarly ==
  /\ pc = "dispatch"
  /\ \E i \in 1..Len(toolCalls) : toolOutputs[i] # Pending
  /\ Issue("submitToolOutputs")
  /\ pc' = "submit"
  /\ UNCHANGED <<authVars, clientVars, searchVars, searchBodies, messages, keyMissingServed,
                 env, bodyOk, threadId, currentThreadId, runId, status, retries, toolCalls,
                 toolOutputs, searched, failures, response, lastFetched,
                 terminalFetched, cancelResult, rounds, thrown>>

\* route.ts:94 and 161: Promise.all has resolved and the batch is posted.
SubmitToolOutputs ==
  /\ pc = "dispatch"
  /\ \A i \in 1..Len(toolCalls) : toolOutputs[i] # Pending
  /\ Issue("submitToolOutputs")
  /\ pc' = "submit"
  /\ UNCHANGED <<authVars, clientVars, searchVars, searchBodies, messages, keyMissingServed,
                 env, bodyOk, threadId, currentThreadId, runId, status, retries, toolCalls,
                 toolOutputs, searched, response, lastFetched, terminalFetched,
                 cancelResult, rounds, thrown, failures>>

\* SubmitReturns that does not count the poll of a tool round.
SubmitReturnsUncounted ==
  /\ pc = "submit"
  /\ status' = "in_progress"
  /\ toolCalls' = <<>>
  /\ toolOutputs' = <<>>
  /\ searched' = {}
  /\ failures' = <<>>
  /\ searchBodies' = <<>>
  /\ pc' = "loop"
  /\ UNCHANGED <<authVars, clientVars, searchVars, messages, keyMissingServed,
                 env, bodyOk, threadId, currentThreadId, runId, response, calls,
                 callThreads, lastFetched, terminalFetched, cancelResult, rounds, thrown,
                 retries>>

\* route.ts:167-172: the post returned.
SubmitReturns ==
  /\ pc = "submit"
  /\ status' = "in_progress"
  /\ retries' = retries + 1
  /\ toolCalls' = <<>>
  /\ toolOutputs' = <<>>
  /\ searched' = {}
  /\ failures' = <<>>
  /\ searchBodies' = <<>>
  /\ pc' = "loop"
  /\ UNCHANGED <<authVars, clientVars, searchVars, messages, keyMissingServed,
                 env, bodyOk, threadId, currentThreadId, runId, response, calls,
                 callThreads, lastFetched, terminalFetched, cancelResult, rounds, thrown>>

\* CancelRun whose failed cancel call reaches the catch block.
CancelRunPropagatesFailure ==
  /\ pc = "loop"
  /\ ~LoopCondition
  /\ status \notin TerminalStatuses
  /\ Issue("cancelRun")
  /\ \E r \in {"ok", "failed"} :
       /\ cancelResult' = r
       /\ response' = IF r = "ok" THEN TimeoutResponse(currentThreadId)
                      ELSE ErrorResponse([remote |-> Absent, message |-> "Network Error"])
  /\ pc' = "done"
  /\ UNCHANGED <<authVars, clientVars, searchVars, searchBodies, messages, keyMissingServed,
                 env, bodyOk, threadId, currentThreadId, runId, status, retries, toolCalls,
                 toolOutputs, searched, lastFetched, terminalFetched, rounds, thrown, failures>>

\* CancelRun that answers without calling cancel.
CancelRunSkipsCall ==
  /\ pc = "loop"
  /\ ~LoopCondition
  /\ status \notin TerminalStatuses
  /\ response' = TimeoutResponse(currentThreadId)
  /\ pc' = "done"
  /\ UNCHANGED <<authVars, clientVars, searchVars, searchBodies, messages, keyMissingServed,
                 env, bodyOk, threadId, currentThreadId, runId, status, retries, toolCalls,
                 toolOutputs, searched, failures, calls, callThreads, lastFetched,
                 terminalFetched, cancelResult, rounds, thrown>>

\* CancelRun that also runs when the polls are used up, whatever the status.
CancelRunOnExhaustion ==
  /\ pc = "loop"
  /\ ~LoopCondition
  /\ (status \notin TerminalStatuses \/ retries >= maxRetries)
  /\ Issue("cancelRun")
  /\ cancelResult' \in {"ok", "failed"}
  /\ response' = TimeoutResponse(currentThreadId)
  /\ pc' = "done"
  /\ UNCHANGED <<authVars, clientVars, searchVars, searchBodies, messages, keyMissingServed,
                 env, bodyOk, threadId, currentThreadId, runId, status, retries, toolCalls,
                 toolOutputs, searched, lastFetched, terminalFetched, rounds, thrown, failures>>

\* route.ts:175-201.
CancelRun ==
  /\ pc = "loop"
  /\ ~LoopCondition
  /\ status \notin TerminalStatuses
  /\ Issue("cancelRun")
  /\ cancelResult' \in {"ok", "failed"}
  /\ response' = TimeoutResponse(currentThreadId)
  /\ pc' = "done"
  /\ UNCHANGED <<authVars, clientVars, searchVars, searchBodies, messages, keyMissingServed,
                 env, bodyOk, threadId, currentThreadId, runId, status, retries, toolCalls,
                 toolOutputs, searched, lastFetched, terminalFetched, rounds, thrown, failures>>

\* route.ts:203-215 and 227-238, for a completed run.
ListMessages ==
  /\ pc = "loop"
  /\ ~LoopCondition
  /\ status = "completed"
  /\ Issue("listMessages")
  /\ \E data \in MessageLists :
       /\ messages' = data
       /\ response' = FinalResponse(status, data, currentThreadId)
  /\ pc' = "done"
  /\ UNCHANGED <<authVars, clientVars, searchVars, searchBodies, keyMissingServed,
                 env, bodyOk, threadId, currentThreadId, runId, status, retries, toolCalls,
                 toolOutputs, searched, lastFetched, terminalFetched, cancelResult, rounds, thrown, failures>>

\* RespondFinal that answers for every status other than completed.
RespondFinalAnyStatus ==
  /\ pc = "loop"
  /\ ~LoopCondition
  /\ status # "completed"
  /\ response' = FinalResponse(status, <<>>, currentThreadId)
  /\ pc' = "done"
  /\ UNCHANGED <<authVars, clientVars, searchVars, searchBodies, messages, keyMissingServed,
                 env, bodyOk, threadId, currentThreadId, runId, status, retries, toolCalls,
                 toolOutputs, searched, calls, callThreads, lastFetched,
                 terminalFetched, cancelResult, rounds, thrown, failures>>

\* route.ts:216-238, for a failed or cancelled run.
RespondFinal ==
  /\ pc = "loop"
  /\ ~LoopCondition
  /\ status \in TerminalStatuses \ {"completed"}
  /\ response' = FinalResponse(status, <<>>, currentThreadId)
  /\ pc' = "done"
  /\ UNCHANGED <<authVars, clientVars, searchVars, searchBodies, messages, keyMissingServed,
                 env, bodyOk, threadId, currentThreadId, runId, status, retries, toolCalls,
                 toolOutputs, searched, calls, callThreads, lastFetched,
                 terminalFetched, cancelResult, rounds, thrown, failures>>

\* The remote call whose failure the handler may meet at pc: the call it
\* issues there or, at "submit", the call in flight; Absent when none.
CallAt(p) ==
  CASE p = "thread" -> IF Falsy(threadId) THEN "createThread" ELSE Absent
    [] p = "message" -> "addMessage"
    [] p = "run" -> "createRun"
    [] p = "fetch" -> "fetchStatus"
    [] p = "submit" -> "submitToolOutputs"
    [] p = "loop" -> IF ~LoopCondition /\ status = "completed"
                       THEN "listMessages" ELSE Absent
    [] OTHER -> Absent

\* CatchError that cancels the run before it answers.
CatchErrorCancels ==
  /\ CallAt(pc) # Absent
  /\ calls' = [k \in CallKinds |->
                 calls[k] + (IF k = "cancelRun" \/ (k = CallAt(pc) /\ pc # "submit")
                               THEN 1 ELSE 0)]
  /\ callThreads' = callThreads \cup {currentThreadId}
  /\ \E err \in RemoteErrors :
       /\ response' = ErrorResponse(err)
       /\ thrown' = [kind |-> CallAt(pc), err |-> err]
  /\ toolCalls' = <<>>
  /\ toolOutputs' = <<>>
  /\ searched' = {}
  /\ failures' = <<>>
  /\ searchBodies' = <<>>
  /\ pc' = "done"
  /\ UNCHANGED <<authVars, clientVars, searchVars, messages, keyMissingServed,
                 env, bodyOk, threadId, currentThreadId, runId, status, retries,
                 lastFetched, terminalFetched, cancelResult, rounds>>

\* route.ts:240-251: a remote call throws and the catch block answers.
CatchError ==
  /\ CallAt(pc) # Absent
  /\ IF pc = "submit" THEN UNCHANGED <<calls, callThreads>> ELSE Issue(CallAt(pc))
  /\ \E err \in RemoteErrors :
       /\ response' = ErrorResponse(err)
       /\ thrown' = [kind |-> CallAt(pc), err |-> err]
  /\ toolCalls' = <<>>
  /\ toolOutputs' = <<>>
  /\ searched' = {}
  /\ failures' = <<>>
  /\ searchBodies' = <<>>
  /\ pc' = "done"
  /\ UNCHANGED <<authVars, clientVars, searchVars, messages, keyMissingServed,
                 env, bodyOk, threadId, currentThreadId, runId, status, retries,
                 lastFetched, terminalFetched, cancelResult, rounds>>

Next ==
  \/ CheckCredentials
  \/ GetOrCreateThread
  \/ AddMessage
  \/ CreateRun
  \/ Sleep
  \/ FetchStatus
  \/ ServiceOne
  \/ SubmitToolOutputs
  \/ SubmitReturns
  \/ CancelRun
  \/ ListMessages
  \/ RespondFinal
  \/ CatchError

Spec == Init /\ [][Next]_vars

\* The handler keeps running while a step is open to it: every remote call
\* it awaits returns or throws, and so does every tool-call callback.
FairSpec == Spec /\ WF_vars(Next)

(***************************************************************************)
(* A request made to the search endpoint itself.                           *)
(***************************************************************************)
\* The bodies of the requests: one that is not JSON, and the JSON objects
\* with or without each of query, max_results and include_domains.
SearchRequests ==
  { [ok |-> FALSE, query |-> Absent, max_results |-> 0, has_domains |-> FALSE,
     include_domains |-> <<>>] }
    \cup
  { [ok |-> TRUE, query |-> q, max_results |-> m, has_domains |-> d.has,
     include_domains |-> d.list] :
      q \in {Absent, "", "ai"},
      m \in {0, 1, 5},
      d \in { [has |-> FALSE, list |-> <<>>],
              [has |-> TRUE, list |-> <<>>],
              [has |-> TRUE, list |-> <<"ey.com">>],
              [has |-> TRUE, list |-> <<"ey.com", "gov.uk">>] } }

\* The state of the chat request.
chatVars == <<env, bodyOk, threadId, pc, currentThreadId, runId, status, retries, toolCalls,
              toolOutputs, searched, failures, response, calls, callThreads,
              lastFetched, terminalFetched, cancelResult, rounds, thrown, messages,
              keyMissingServed, searchBodies>>

\* No chat request is being handled.
ChatIdle ==
  /\ env = [OPENAI_API_KEY |-> FALSE, OPENAI_ASSISTANT_ID |-> FALSE,
            TAVILY_API_KEY |-> FALSE]
  /\ bodyOk = FALSE
  /\ threadId = Absent
  /\ pc = "idle"
  /\ currentThreadId = Absent
  /\ runId = Absent
  /\ status = Absent
  /\ retries = 0
  /\ toolCalls = <<>>
  /\ toolOutputs = <<>>
  /\ searched = {}
  /\ failures = <<>>
  /\ response = NoResponse
  /\ calls = [k \in CallKinds |-> 0]
  /\ callThreads = {}
  /\ lastFetched = Absent
  /\ terminalFetched = FALSE
  /\ cancelResult = Absent
  /\ rounds = 0
  /\ thrown = NoThrow
  /\ messages = <<>>
  /\ keyMissingServed = FALSE
  /\ searchBodies = <<>>

SearchInit ==
  /\ sreq \in SearchRequests
  /\ skey \in BOOLEAN
  /\ spc = "start"
  /\ shandler = Absent
  /\ sres = NoSearchResponse
  /\ soutcome = NoProviderOutcome
  /\ ChatIdle
  /\ AuthIdle
  /\ ClientIdle

\* The handler of the search endpoint answers the request: a body that is not
\* JSON makes req.json() throw into the catch block.
SearchHandle ==
  /\ spc = "start"
  /\ \E outcome \in ProviderOutcomes :
       /\ sres' = IF ~sreq.ok
                    THEN SearchErrorResponse(BodyError.message, NoProviderRequest)
                    ELSE SearchPOST(Destructure(sreq), skey, outcome)
       /\ soutcome' = IF sres'.provider.sent THEN outcome ELSE NoProviderOutcome
  /\ shandler' = "current"
  /\ spc' = "done"
  /\ UNCHANGED <<sreq, skey, chatVars, authVars, clientVars>>

\* The earlier version of the handler answers the request.
SearchHandleEarlier ==
  /\ spc = "start"
  /\ \E outcome \in ProviderOutcomes :
       /\ sres' = IF ~sreq.ok
                    THEN SearchErrorResponse(BodyError.message, NoProviderRequest)
                    ELSE SearchPOSTEarlier(DestructureEarlier(sreq), skey, outcome)
       /\ soutcome' = IF sres'.provider.sent THEN outcome ELSE NoProviderOutcome
  /\ shandler' = "earlier"
  /\ spc' = "done"
  /\ UNCHANGED <<sreq, skey, chatVars, authVars, clientVars>>

SearchNext ==
  \/ SearchHandle
  \/ SearchHandleEarlier

SearchSpec == SearchInit /\ [][SearchNext]_vars

(***************************************************************************)
(* Properties.                                                             *)
(***************************************************************************)
CredentialsSet == env.OPENAI_API_KEY /\ env.OPENAI_ASSISTANT_ID

\* The status fetches that returned a status (the one that threw excluded).
FetchesReturned ==
  calls["fetchStatus"] - (IF thrown.kind = "fetchStatus" THEN 1 ELSE 0)

\* The responses that answer for a run: completed, failed, cancelled, timeout.
RunResponse == response.http \in {200, 504}

\* Every poll that returned tool calls is followed by a submit call: the
\* only poll without one is the poll being serviced.
BatchesSubmitted ==
  rounds = calls["submitToolOutputs"] + (IF pc = "dispatch" THEN 1 ELSE 0)

\* An HTTP 500 response comes from missing credentials, from a request body
\* that does not decode or from a remote assistant call that threw, from
\* nothing else.
ErrorResponseOnlyFromThrow ==
  (pc = "done" /\ response.http = 500) =>
    \/ ~CredentialsSet
    \/ thrown.kind \in CallKinds \cup {"requestBody"}

\* C1. Session reuse: a request that carries a non-empty threadId never
\* issues a create-thread call, and the completed, failed, cancelled and
\* timeout responses carry exactly the threadId of the request.
C1_SessionReuse ==
  ~Falsy(threadId) =>
    /\ calls["createThread"] = 0
    /\ callThreads \subseteq {threadId}
    /\ RunResponse => response.threadId = threadId
    /\ response.threadId \in {Absent, threadId}

\* C1 witness: a request on an existing thread was polled, timed out and
\* answered with the thread it came with.
C1_Witness ==
  /\ pc = "done" /\ threadId = "thread_A"
  /\ response.http = 504 /\ response.threadId = "thread_A"
  /\ calls["fetchStatus"] = maxRetries

\* C2 as stated: every request with no threadId makes exactly one
\* create-thread call, and the id it returned is used for all later calls
\* and returned to the caller.
C2_Original ==
  (Falsy(threadId) /\ pc = "done") =>
    /\ calls["createThread"] = 1
    /\ callThreads \subseteq {NewThreadId}
    /\ response.threadId = NewThreadId

\* C2 as amended. Session creation: a request with no threadId that passes
\* the credential check makes exactly one create-thread call in the whole
\* request; the id it returned is the thread of all later calls and the
\* threadId of every completed, failed, cancelled or timeout response.
C2_SessionCreation ==
  Falsy(threadId) =>
    /\ calls["createThread"] <= 1
    /\ (bodyOk /\ CredentialsSet /\ pc \notin {"start", "thread"})
         => calls["createThread"] = 1
    /\ callThreads \subseteq {NewThreadId}
    /\ RunResponse => response.threadId = NewThreadId
    /\ response.threadId \in {Absent, NewThreadId}

\* C2 witness: a request with no threadId used its poll budget, completed
\* on the last poll and was answered with the new thread.
C2_Witness ==
  /\ pc = "done" /\ bodyOk /\ threadId = Absent
  /\ response.http = 200 /\ status = "completed"
  /\ response.threadId = NewThreadId
  /\ calls["createThread"] = 1 /\ calls["fetchStatus"] = maxRetries

PendingIds == { toolCalls[i].id : i \in 1..Len(toolCalls) }
OutputIds == { toolOutputs[i].tool_call_id : i \in 1..Len(toolOutputs) }

\* C4. Tool-output completeness: the tool_outputs array of a submit call
\* has one entry per pending tool call, and its tool_call_id values are the
\* pending ids, none twice and none missing, whichever handlers failed.
C4_ToolOutputsComplete ==
  pc = "submit" =>
    /\ Len(toolCalls) >= 1
    /\ Len(toolOutputs) = Len(toolCalls)
    /\ \A i \in 1..Len(toolOutputs) : toolOutputs[i] # Pending
    /\ OutputIds = PendingIds
    /\ Cardinality(OutputIds) = Len(toolOutputs)

\* C4 witness: a batch of two is posted, one handler failed and one succeeded.
C4_Witness ==
  /\ pc = "submit" /\ Len(toolCalls) = 2
  /\ \E i, j \in 1..Len(toolOutputs) :
       /\ failures[i] # Absent
       /\ "answer" \in toolOutputs[j].output.fields

\* C5. Isolation: a web_search tool call whose servicing fails (arguments
\* that do not decode, search endpoint unreachable or non-OK) gets a
\* ToolOutput with its id and the payload {error: message, results: []};
\* the batch is still submitted and no HTTP 500 response comes of it.
C5_Isolation ==
  /\ \A i \in 1..Len(toolOutputs) :
       failures[i] # Absent =>
         /\ toolCalls[i].name = "web_search"
         /\ toolOutputs[i].tool_call_id = toolCalls[i].id
         /\ toolOutputs[i].output.fields = {"error", "results"}
         /\ ~Falsy(toolOutputs[i].output.error)
         /\ toolOutputs[i].output.results = <<>>
  /\ BatchesSubmitted
  /\ ErrorResponseOnlyFromThrow

\* C5 witness: a batch is posted in which one call failed to decode and
\* another got a non-OK answer from the search endpoint.
C5_Witness ==
  /\ pc = "submit"
  /\ \E i, j \in 1..Len(toolOutputs) :
       /\ failures[i] = "decode"
       /\ failures[j] = "status"
       /\ toolOutputs[j].output.error = "Search failed: 500"

\* C6. Unknown tool: a tool call whose function name is not web_search gets
\* a ToolOutput with its id and the payload {error: "Unknown function"},
\* without a call of the search endpoint and without a failure; the batch
\* is submitted.
C6_UnknownTool ==
  /\ \A i \in 1..Len(toolOutputs) :
       (toolCalls[i].name # "web_search" /\ toolOutputs[i] # Pending) =>
         /\ toolOutputs[i].tool_call_id = toolCalls[i].id
         /\ toolOutputs[i].output.fields = {"error"}
         /\ toolOutputs[i].output.error = "Unknown function"
         /\ i \notin searched
         /\ failures[i] = Absent
  /\ (pc = "submit" /\ \A i \in 1..Len(toolCalls) : toolCalls[i].name # "web_search")
       => searched = {}
  /\ rounds >= calls["submitToolOutputs"]
  /\ rounds <= calls["submitToolOutputs"] + 1

\* C6 witness: a batch holding a call of an unknown function is posted.
C6_Witness ==
  /\ pc = "submit"
  /\ \E i \in 1..Len(toolOutputs) :
       /\ toolCalls[i].name = "get_weather"
       /\ toolOutputs[i].output.error = "Unknown function"

\* C7. Cache directive: the response of a completed run is sent with the
\* cacheable directive, and every other response (missing credentials,
\* transport error, timeout, failed, cancelled) with no-cache.
C7_CacheDirective ==
  pc = "done" =>
    IF response.http = 200 /\ status = "completed"
      THEN response.cache = CacheableDirective
      ELSE response.cache = NoCacheDirective

\* C8 as stated: every response sent once a thread is in use carries the
\* threadId in use.
C8_Original ==
  (pc = "done" /\ currentThreadId # Absent) => response.threadId = currentThreadId

\* C8 as amended. The completed, failed, cancelled and timeout responses
\* carry the threadId in use; the HTTP 500 error response carries none.
C8_ThreadIdReturned ==
  pc = "done" =>
    /\ RunResponse => (response.threadId = currentThreadId /\ currentThreadId # Absent)
    /\ response.http = 500 => response.threadId = Absent
    /\ response.http \in {200, 500, 504}

\* C8 witness: a timeout response carries the thread created for the request.
C8_Witness ==
  /\ pc = "done" /\ response.http = 504
  /\ Falsy(threadId) /\ response.threadId = NewThreadId

\* C9. Configuration error: with the API key or the assistant id missing
\* the request is answered at once with HTTP 500 and an error body, and no
\* remote call is made.
C9_ConfigurationError ==
  ~CredentialsSet =>
    /\ pc \in {"start", "done"}
    /\ \A k \in CallKinds : calls[k] = 0
    /\ callThreads = {}
    /\ searched = {}
    /\ pc = "done" =>
         /\ response.http = 500
         /\ ~Falsy(response.error)
         /\ response.reply = <<>>

\* C9 witness: the assistant id alone is missing and the request was answered.
C9_Witness ==
  /\ pc = "done" /\ env.OPENAI_API_KEY /\ ~env.OPENAI_ASSISTANT_ID
  /\ response.http = 500

\* C10. Transport and API errors: a remote assistant call that throws ends
\* the request with HTTP 500 whose error is the remote message when there
\* is one, else the transport error's message, else "Unknown error".
C10_TransportError ==
  /\ thrown.kind \in {Absent, "requestBody"} \cup (CallKinds \ {"cancelRun"})
  /\ thrown.kind \in CallKinds =>
       /\ pc = "done"
       /\ calls[thrown.kind] >= 1
       /\ response.http = 500
       /\ response.reply = <<>>
       /\ response.error =
            IF thrown.err.remote \notin {Absent, ""} THEN thrown.err.remote
            ELSE IF thrown.err.message \notin {Absent, ""} THEN thrown.err.message
            ELSE "Unknown error"
  /\ cancelResult = "failed" => response.http = 504

\* C10 witness: the submit call threw with a remote message and a transport
\* message, and the response carries the remote one.
C10_Witness ==
  /\ thrown.kind = "submitToolOutputs"
  /\ thrown.err.remote = "Invalid thread id"
  /\ ~Falsy(thrown.err.message)
  /\ response.http = 500 /\ response.error = "Invalid thread id"

\* C11. Best-effort cancel: once the cancel call has been issued, whether it
\* succeeded or failed, the handler has answered with the one timeout
\* response, HTTP 504 with the timeout text, the session's threadId and
\* Cache-Control no-cache, and nothing was thrown to the catch block, so the
\* answer is never HTTP 500.
C11_BestEffortCancel ==
  cancelResult # Absent =>
    /\ cancelResult \in {"ok", "failed"}
    /\ pc = "done"
    /\ calls["cancelRun"] = 1
    /\ thrown = NoThrow
    /\ response = [http |-> 504,
                   error |-> "Request timeout. The assistant is taking longer than expected. Please try again.",
                   reply |-> <<>>,
                   threadId |-> currentThreadId,
                   cache |-> "no-cache"]
    /\ currentThreadId \in {"thread_A", NewThreadId}

\* A request whose cancel call failed and that answered 504.
C11_Witness ==
  /\ pc = "done"
  /\ cancelResult = "failed"
  /\ calls["cancelRun"] = 1
  /\ response.http = 504

\* C12. Only cancellation trigger: a request that performed fewer than
\* maxRetries status fetches, whatever statuses the remote service returned,
\* has issued no cancel call and has not answered with the timeout outcome.
C12_OnlyCancellationTrigger ==
  calls["fetchStatus"] < maxRetries =>
    /\ calls["cancelRun"] = 0
    /\ cancelResult = Absent
    /\ response.http # 504

\* C13. Terminal failure statuses: once a status fetch has returned failed
\* or cancelled the loop is over (no further fetch, no tool servicing), no
\* cancel call and no list-messages call is issued, and the answer is HTTP 200
\* with the fixed fallback reply of that status, the session's threadId and
\* Cache-Control no-cache.
C13_TerminalFailure ==
  lastFetched \in {"failed", "cancelled"} =>
    /\ status = lastFetched
    /\ pc \in {"loop", "done"}
    /\ ~LoopCondition
    /\ toolCalls = <<>>
    /\ calls["cancelRun"] = 0
    /\ calls["listMessages"] = 0
    /\ thrown = NoThrow
    /\ pc = "done" =>
         response =
           [http |-> 200,
            error |-> Absent,
            reply |-> IF lastFetched = "failed"
                        THEN <<"The assistant encountered an error. Please try again.">>
                        ELSE <<"Request was cancelled. Please try again.">>,
            threadId |-> IF Falsy(threadId) THEN NewThreadId ELSE threadId,
            cache |-> "no-cache"]

\* A request answered after its run was fetched as cancelled on a later poll.
C13_Witness ==
  /\ pc = "done"
  /\ lastFetched = "cancelled"
  /\ calls["fetchStatus"] > 1
  /\ response.http = 200
  /\ response.reply = <<"Request was cancelled. Please try again.">>

\* C14. Batch resubmission: a submit-tool-outputs call is issued once per
\* poll that returned tool calls, when every pending tool call has its own
\* output in the batch (never a part of them); and a status fetch or the
\* cancel call is issued only when every such poll has had its submit call
\* and that call has returned, so no submit call is in flight or still owed;
\* a request that has answered owes no submit call either.
C14_BatchResubmission ==
  [][ /\ calls'["submitToolOutputs"] # calls["submitToolOutputs"] =>
           /\ calls'["submitToolOutputs"] = calls["submitToolOutputs"] + 1
           /\ rounds = calls'["submitToolOutputs"]
           /\ Len(toolCalls) > 0
           /\ toolOutputs' = toolOutputs
           /\ Len(toolOutputs) = Len(toolCalls)
           /\ \A i \in 1..Len(toolCalls) :
                /\ toolOutputs[i] # Pending
                /\ toolOutputs[i].tool_call_id = toolCalls[i].id
      /\ (\/ calls'["fetchStatus"] # calls["fetchStatus"]
          \/ calls'["cancelRun"] # calls["cancelRun"]) =>
           /\ pc \notin {"dispatch", "submit"}
           /\ toolCalls = <<>>
           /\ rounds = calls["submitToolOutputs"]
      /\ pc' = "done" => rounds' = calls'["submitToolOutputs"]
    ]_vars

\* A second poll with tool calls whose batch has been posted in full.
C14_Witness ==
  /\ pc = "submit"
  /\ rounds = 2
  /\ calls["submitToolOutputs"] = 2
  /\ Len(toolCalls) = 2
  /\ \A i \in 1..Len(toolCalls) : toolOutputs[i] # Pending

ContainsMarker(t) == \E i \in 1..Len(t) : MatchEnd(t, i) > 0

\* C16. Citation stripping: whatever the raw text of the selected assistant
\* message, the reply of a completed run holds no substring that matches the
\* citation-marker pattern.
C16_CitationStripping ==
  (pc = "done" /\ status = "completed" /\ response.http = 200) =>
    ~ContainsMarker(response.reply)

\* The indexes of the assistant messages of the listed messages.
AssistantIndexes == { i \in 1..Len(messages) : messages[i].role = "assistant" }

\* The listed messages give no reply text: there is no assistant message,
\* or the first one has no text, or its text is empty once the citation
\* markers are removed.
NoReplyText ==
  \/ AssistantIndexes = {}
  \/ LET k == CHOOSE i \in AssistantIndexes : \A j \in AssistantIndexes : i <= j
     IN  \/ ~messages[k].has_text
         \/ StripCitations(messages[k].value) = <<>>

\* C17. Malformed completion: when the run completed and the message list
\* holds no assistant message, or the selected message has no text, or its
\* text is empty after citation stripping, the answer is HTTP 200 with the
\* reply "No valid response." and the session's threadId, not an error.
C17_MalformedCompletion ==
  (pc = "done" /\ status = "completed" /\ thrown = NoThrow /\ NoReplyText) =>
    /\ response.http = 200
    /\ response.error = Absent
    /\ response.reply = <<"No valid response.">>
    /\ response.threadId = currentThreadId
    /\ currentThreadId \in {"thread_A", NewThreadId}

\* A completed run whose message list holds the user's message only.
C17_Witness ==
  /\ pc = "done"
  /\ status = "completed"
  /\ calls["listMessages"] = 1
  /\ Len(messages) = 1
  /\ messages[1].role = "user"
  /\ response.reply = <<"No valid response.">>

\* The i-th tool call is a web_search with a query whose search request
\* reached the search endpoint while the provider key was missing, and its
\* callback has returned.
KeyMissingSlot(i) ==
  /\ ~env.TAVILY_API_KEY
  /\ toolCalls[i].name = "web_search"
  /\ JSONParse(toolCalls[i].arguments).ok
  /\ ~Falsy(JSONParse(toolCalls[i].arguments).query)
  /\ failures[i] = "status"
  /\ toolOutputs[i] # Pending

\* C18 as stated: with the provider key missing, the ToolOutput of a
\* serviced web_search call encodes {error: "Tavily API key missing",
\* results: []}.
C18_Original ==
  \A i \in 1..Len(toolOutputs) :
    KeyMissingSlot(i) =>
      /\ toolOutputs[i].output.fields = {"error", "results"}
      /\ toolOutputs[i].output.error = "Tavily API key missing"
      /\ toolOutputs[i].output.results = <<>>

\* C18. Scenario 3, missing search credential: with the provider key
\* missing, the ToolOutput of a web_search call whose search request reached
\* the search endpoint carries the call's id and encodes
\* {error: "Search failed: 500", results: []}; the batch is submitted, and
\* the request answers HTTP 500 only if a remote call threw.
C18_SearchKeyMissing ==
  /\ \A i \in 1..Len(toolOutputs) :
       KeyMissingSlot(i) =>
         /\ toolOutputs[i].tool_call_id = toolCalls[i].id
         /\ toolOutputs[i].output.fields = {"error", "results"}
         /\ toolOutputs[i].output.error = "Search failed: 500"
         /\ toolOutputs[i].output.results = <<>>
  /\ keyMissingServed => ~env.TAVILY_API_KEY /\ rounds >= 1
  /\ BatchesSubmitted
  /\ ErrorResponseOnlyFromThrow

\* A run that completed and was answered after a search met the missing key.
C18_Witness ==
  /\ pc = "done"
  /\ keyMissingServed
  /\ status = "completed"
  /\ calls["submitToolOutputs"] = rounds
  /\ response.http = 200
  /\ response.reply = <<"H", "i">>

\* C19. Search endpoint error responses: every non-success response of the
\* search endpoint (missing query, missing provider key, provider non-OK
\* status, transport failure) has a body that is {error: string}, HTTP
\* status 500 and Cache-Control no-cache.
C19_SearchErrorResponses ==
  (spc = "done" /\ sres.status # 200) =>
    /\ ~Falsy(sres.error)
    /\ sres.results = <<>>
    /\ sres.answer = Absent
    /\ sres.status = 500
    /\ sres.cache = "no-cache"

\* C20. Search validation: a request without a query, or made while the
\* provider key is missing, is rejected without a request to the search
\* provider; the query is checked first, so a request that lacks both is
\* answered for its query.
C20_SearchValidation ==
  (spc = "done" /\ sreq.ok /\ (Falsy(sreq.query) \/ ~skey)) =>
    /\ sres.provider.sent = FALSE
    /\ sres.provider = NoProviderRequest
    /\ sres.status # 200
    /\ sres.results = <<>>
    /\ sres.error = IF Falsy(sreq.query) THEN "Query required"
                    ELSE "Tavily API key missing"
    /\ sres.status = IF Falsy(sreq.query) THEN 400 ELSE 500

\* A request with neither query nor provider key, answered by the handler.
C20_Witness ==
  /\ spc = "done"
  /\ shandler = "current"
  /\ sreq.ok
  /\ sreq.query = Absent
  /\ ~skey
  /\ sres.error = "Query required"
  /\ sres.provider.sent = FALSE

\* C21. Search endpoint success: when the provider answers OK the response
\* is HTTP 200 with the provider's results, or [] when its payload has none,
\* and its answer, or null when it has none, and with Cache-Control
\* "s-maxage=600, stale-while-revalidate=1200"; when the provider answers
\* non-OK the response is never that one but an error whose text carries the
\* provider's status code.
C21_SearchSuccess ==
  spc = "done" =>
    /\ soutcome.kind = "ok" =>
         /\ sres.status = 200
         /\ sres.error = Absent
         /\ sres.results = IF soutcome.has_results THEN soutcome.results ELSE <<>>
         /\ sres.answer = IF soutcome.answer = Absent THEN Null ELSE soutcome.answer
         /\ sres.cache = "s-maxage=600, stale-while-revalidate=1200"
    /\ soutcome.kind = "status" =>
         /\ sres.status = 500
         /\ sres.error = "Tavily API error: " \o ToString(soutcome.status)
         /\ sres.results = <<>>
         /\ sres.answer = Absent
         /\ sres.cache # "s-maxage=600, stale-while-revalidate=1200"
    /\ sres.status = 200 => soutcome.kind = "ok"

\* The provider answered OK with a payload that has neither results nor
\* answer, and the handler filled in the defaults.
C21_Witness ==
  /\ spc = "done"
  /\ soutcome.kind = "ok"
  /\ ~soutcome.has_results
  /\ soutcome.answer = Absent
  /\ sres.status = 200
  /\ sres.results = <<>>
  /\ sres.answer = Null

\* C22. Domain allow-list: the request sent to the provider contains an
\* include_domains field if and only if the include_domains list of the
\* request is non-empty; a request that omits include_domains, or passes an
\* empty list, sends the provider no domain restriction.
C22_DomainAllowList ==
  (spc = "done" /\ sres.provider.sent) =>
    /\ sres.provider.has_include_domains
         <=> (sreq.has_domains /\ Len(sreq.include_domains) > 0)
    /\ sres.provider.has_include_domains =>
         sres.provider.include_domains = sreq.include_domains
    /\ (~sreq.has_domains \/ sreq.include_domains = <<>>) =>
         ~sres.provider.has_include_domains

\* The kinds of remote call a step issues.
IssuedCalls == { k \in CallKinds : calls'[k] # calls[k] }

\* C26. Call ordering within one chat request: a step issues at most one
\* remote call and none while the submit call is in flight; create thread is
\* the first call and is made only without a threadId; the user message is
\* appended once, before the run is created once; a status fetch comes after
\* the run was created and directly after a sleep; submit calls come after a
\* status fetch; one cancel call or one list-messages call ends the calls.
\* A request that ran through without a failing call has made exactly one
\* append and one create-run call and one of cancel and list-messages at most.
C26_CallOrdering ==
  /\ [][ /\ Cardinality(IssuedCalls) <= 1
         /\ \A k \in IssuedCalls : calls'[k] = calls[k] + 1 /\ pc # "submit"
         /\ "createThread" \in IssuedCalls =>
              /\ Falsy(threadId)
              /\ \A k \in CallKinds : calls[k] = 0
         /\ "addMessage" \in IssuedCalls =>
              /\ calls["createThread"] = (IF Falsy(threadId) THEN 1 ELSE 0)
              /\ \A k \in CallKinds \ {"createThread"} : calls[k] = 0
         /\ "createRun" \in IssuedCalls =>
              /\ calls["addMessage"] = 1
              /\ \A k \in CallKinds \ {"createThread", "addMessage"} : calls[k] = 0
         /\ "fetchStatus" \in IssuedCalls =>
              /\ calls["createRun"] = 1
              /\ pc = "fetch"
              /\ pc' # "fetch"
         /\ (pc' = "fetch" /\ pc # "fetch") => (pc = "loop" /\ calls' = calls)
         /\ "submitToolOutputs" \in IssuedCalls =>
              calls["submitToolOutputs"] < calls["fetchStatus"]
         /\ ("cancelRun" \in IssuedCalls \/ "listMessages" \in IssuedCalls) =>
              /\ calls["createRun"] = 1
              /\ calls["fetchStatus"] >= 1
         /\ (calls["cancelRun"] + calls["listMessages"] > 0) => calls' = calls
       ]_vars
  /\ [](/\ calls["cancelRun"] + calls["listMessages"] <= 1
        /\ (pc = "done" /\ response.http \in {200, 504}) =>
             /\ calls["createThread"] = (IF Falsy(threadId) THEN 1 ELSE 0)
             /\ calls["addMessage"] = 1
             /\ calls["createRun"] = 1
             /\ calls["fetchStatus"] >= 1)

\* A request that created its thread, polled twice with a submit call in
\* between and read the messages.
C26_Witness ==
  /\ pc = "done"
  /\ calls["createThread"] = 1
  /\ calls["addMessage"] = 1
  /\ calls["createRun"] = 1
  /\ calls["fetchStatus"] = 2
  /\ calls["submitToolOutputs"] = 1
  /\ calls["listMessages"] = 1
  /\ calls["cancelRun"] = 0

\* The outputs servicing the i-th pending tool call alone can produce, one
\* for each thing the network and the search provider may do.
SequentialOutputs(i) ==
  { ServiceToolCall(toolCalls[i], env.TAVILY_API_KEY, net, outcome) :
      net \in NetworkOutcomes, outcome \in ProviderOutcomes }

\* C27. Order independence of tool servicing: in whatever order the
\* callbacks of a batch return, each one fills the slot of its own tool call
\* with an output that servicing that call alone produces, and leaves the
\* slots of the other calls as they are; so the batch that is posted has, at
\* every position, the id of the tool call at that position and a payload
\* that does not depend on the order of completion.
C27_OrderIndependence ==
  /\ [][ toolOutputs' # toolOutputs /\ toolOutputs' # <<>> /\ toolOutputs # <<>> =>
           /\ toolCalls' = toolCalls
           /\ Len(toolOutputs') = Len(toolCalls)
           /\ \E i \in 1..Len(toolCalls) :
                /\ toolOutputs[i] = Pending
                /\ toolOutputs'[i] \in SequentialOutputs(i)
                /\ toolOutputs'[i].tool_call_id = toolCalls[i].id
                /\ \A j \in 1..Len(toolCalls) \ {i} : toolOutputs'[j] = toolOutputs[j]
       ]_vars
  /\ [](pc = "submit" =>
          /\ Len(toolOutputs) = Len(toolCalls)
          /\ \A i \in 1..Len(toolCalls) :
               /\ toolOutputs[i] \in SequentialOutputs(i)
               /\ toolOutputs[i].tool_call_id = toolCalls[i].id)

\* The callback of the second tool call has returned before the first one's.
C27_Witness ==
  /\ pc = "dispatch"
  /\ Len(toolCalls) = 2
  /\ toolCalls[1].name = "web_search"
  /\ toolOutputs[1] = Pending
  /\ toolOutputs[2] # Pending
  /\ toolOutputs[2].tool_call_id = toolCalls[2].id

\* The first assistant message of the listed messages.
FirstAssistant ==
  messages[CHOOSE i \in AssistantIndexes : \A j \in AssistantIndexes : i <= j]

\* C28. Messages are read only for a completed run: the list-messages call
\* is issued at most once, only when the last fetched status is completed,
\* and every request that ends after fetching completed has issued it; the
\* reply is the text, citations stripped, of the first entry of the returned
\* list whose role is assistant, whatever entries come before it.
C28_MessagesOnlyWhenCompleted ==
  /\ calls["listMessages"] <= 1
  /\ calls["listMessages"] = 1 =>
       /\ status = "completed"
       /\ lastFetched = "completed"
       /\ pc = "done"
  /\ (pc = "done" /\ lastFetched = "completed") => calls["listMessages"] = 1
  /\ messages # <<>> => calls["listMessages"] = 1 /\ thrown = NoThrow
  /\ (pc = "done" /\ status = "completed" /\ thrown = NoThrow /\ ~NoReplyText) =>
       /\ response.http = 200
       /\ response.reply = StripCitations(FirstAssistant.value)

\* A completed run whose list has the user's message before the assistant's.
C28_Witness ==
  /\ pc = "done"
  /\ calls["listMessages"] = 1
  /\ Len(messages) = 2
  /\ messages[1].role = "user"
  /\ messages[2].role = "assistant"
  /\ response.reply = <<"A">>

\* C29. Tool-call argument defaults: the search request made for a
\* web_search tool call whose arguments give a query alone has max_results 3
\* and include_domains ["ey.com"]; the one made for arguments that give
\* max_results 5 and an empty include_domains list has max_results 5 and an
\* empty include_domains list; a call that is not a web_search, or whose
\* arguments do not decode, makes no search request.
C29_ArgumentDefaults ==
  \A i \in 1..Len(toolOutputs) :
    toolOutputs[i] # Pending =>
      /\ (toolCalls[i].name = "web_search" /\ toolCalls[i].arguments = "{\"query\":\"ai\"}") =>
           searchBodies[i] =
             [query |-> "ai", max_results |-> 3, include_domains |-> <<"ey.com">>]
      /\ (/\ toolCalls[i].name = "web_search"
          /\ toolCalls[i].arguments
               = "{\"query\":\"ai\",\"max_results\":5,\"include_domains\":[]}") =>
           searchBodies[i] = [query |-> "ai", max_results |-> 5, include_domains |-> <<>>]
      /\ (toolCalls[i].name = "web_search" /\ toolCalls[i].arguments = "{}") =>
           /\ searchBodies[i].max_results = 3
           /\ searchBodies[i].include_domains = <<"ey.com">>
      /\ (toolCalls[i].name # "web_search" \/ toolCalls[i].arguments = "{bad") =>
           searchBodies[i] = NoSearchBody

\* A batch with one call of each kind of arguments, both serviced.
C29_Witness ==
  /\ pc = "submit"
  /\ Len(toolCalls) = 2
  /\ toolCalls[1].arguments = "{\"query\":\"ai\"}"
  /\ toolCalls[2].arguments = "{\"query\":\"ai\",\"max_results\":5,\"include_domains\":[]}"
  /\ searchBodies[1].include_domains = <<"ey.com">>
  /\ searchBodies[2].include_domains = <<>>

\* C30. Terminal status on the last permitted poll wins over timeout: when
\* the maxRetries-th status fetch has returned completed, failed or cancelled,
\* no cancel call is issued and the answer is not the timeout outcome; unless
\* the list-messages call throws, the answer is HTTP 200 with the reply of
\* that status and the session's threadId.
C30_TerminalOnLastPoll ==
  (calls["fetchStatus"] = maxRetries /\ lastFetched \in TerminalStatuses) =>
    /\ retries = maxRetries
    /\ calls["cancelRun"] = 0
    /\ cancelResult = Absent
    /\ response.http # 504
    /\ (pc = "done" /\ thrown = NoThrow) =>
         /\ response.http = 200
         /\ response.error = Absent
         /\ response.threadId = currentThreadId
         /\ lastFetched = "failed" =>
              response.reply = <<"The assistant encountered an error. Please try again.">>
         /\ lastFetched = "cancelled" =>
              response.reply = <<"Request was cancelled. Please try again.">>
         /\ lastFetched = "completed" =>
              /\ calls["listMessages"] = 1
              /\ response.reply = CompletedReply(messages)

\* The last permitted fetch returned completed and the reply was sent.
C30_Witness ==
  /\ pc = "done"
  /\ calls["fetchStatus"] = maxRetries
  /\ retries = maxRetries
  /\ lastFetched = "completed"
  /\ response.http = 200
  /\ calls["cancelRun"] = 0

(***************************************************************************)
(* Sign-in (src/app/api/auth/[...nextauth]/route.ts).                      *)
(***************************************************************************)
\* ChatApp.tsx:1341-1348.
ALLOWED_EMAILS ==
  { "mailabhirupbanerjee@gmail.com",
    "richard.ramdial@gmail.com",
    "crebeccaaboud@gmail.com",
    "silveraarielle@gmail.com",
    "kellman.dana@gmail.com" }

\* The email field of the user or of the profile handed to the callback:
\* undefined (the object or the field is missing), null, empty, or an address
\* as the provider spells it.
Emails ==
  { Absent, Null, "",
    "mailabhirupbanerjee@gmail.com",
    "MailAbhirupBanerjee@Gmail.com",
    "richard.ramdial@gmail.com",
    "RICHARD.RAMDIAL@GMAIL.COM",
    "Kellman.Dana@gmail.com",
    "someone@example.com",
    "Someone@Example.com",
    "mailabhirupbanerjee@gmail.com.example.com" }

\* String.prototype.toLowerCase on the addresses of Emails.
toLowerCase(s) ==
  CASE s = "MailAbhirupBanerjee@Gmail.com" -> "mailabhirupbanerjee@gmail.com"
    [] s = "RICHARD.RAMDIAL@GMAIL.COM" -> "richard.ramdial@gmail.com"
    [] s = "Kellman.Dana@gmail.com" -> "kellman.dana@gmail.com"
    [] s = "Someone@Example.com" -> "someone@example.com"
    [] OTHER -> s

\* signIn that compares the address as it is spelled.
signInCaseSensitive(u, p) ==
  LET email == IF Falsy(u) THEN p ELSE u
  IN  IF Falsy(email) THEN FALSE ELSE email \in ALLOWED_EMAILS

\* The signIn callback (ChatApp.tsx:1357-1361) for the email of the user and
\* the email of the profile.
signIn(u, p) ==
  LET email == IF Falsy(u) THEN p ELSE u
  IN  IF Falsy(email) THEN FALSE ELSE toLowerCase(email) \in ALLOWED_EMAILS

AuthInit ==
  /\ user \in Emails
  /\ profile \in Emails
  /\ apc = "start"
  /\ signedIn = FALSE
  /\ ChatIdle
  /\ SearchIdle
  /\ ClientIdle

\* NextAuth runs the callback and permits the sign-in when it returns true.
HandleSignIn ==
  /\ apc = "start"
  /\ signedIn' = signIn(user, profile)
  /\ apc' = "done"
  /\ UNCHANGED <<user, profile, chatVars, searchVars, clientVars>>

AuthNext == HandleSignIn

AuthSpec == AuthInit /\ [][AuthNext]_vars

\* C25. Email allow-list: a sign-in is permitted if and only if the identity
\* has an email (the user's, or the profile's when the user has none) and
\* that email, lower-cased, is one of ALLOWED_EMAILS; an identity with no
\* email is refused.
C25_EmailAllowList ==
  apc = "done" =>
    LET hasUser == user \notin {Absent, Null, ""}
        hasProfile == profile \notin {Absent, Null, ""}
        email == IF hasUser THEN user ELSE profile
    IN  /\ signedIn <=> /\ hasUser \/ hasProfile
                        /\ email \in
                             { "mailabhirupbanerjee@gmail.com", "MailAbhirupBanerjee@Gmail.com",
                               "richard.ramdial@gmail.com", "RICHARD.RAMDIAL@GMAIL.COM",
                               "Kellman.Dana@gmail.com" }
        /\ (~hasUser /\ ~hasProfile) => ~signedIn

\* A sign-in permitted for an allowed address spelled with capitals.
C25_Witness ==
  /\ apc = "done"
  /\ user = "RICHARD.RAMDIAL@GMAIL.COM"
  /\ signedIn

(***************************************************************************)
(* The chat page (ChatApp.tsx:607-1333) and the requests it sends.  The    *)
(* handlers of a render read the state of that render (view); a setState   *)
(* call changes the state (client), which the next render shows.  Of the   *)
(* chat handler the page sees the thread it uses, the run it creates and   *)
(* the response; the run belongs to the remote service, which ends it when *)
(* it chooses.                                                             *)
(***************************************************************************)
\* A thread saved by an earlier visit of the page.
SavedThreadId == "thread_A"

\* The thread the remote service creates for the i-th request.
NewThreadOf(i) == "thread_" \o ToString(i)

\* ChatApp.tsx:822-827.
UserMessage(text) == [role |-> "user", content |-> text]

\* ChatApp.tsx:867-871.
AssistantMessage(reply) == [role |-> "assistant", content |-> reply]

\* ChatApp.tsx:886-890, for the error text of the response.
ErrorChatMessage(text) == [role |-> "assistant", content |-> "Error: " \o text]

\* localStorage.setItem("chatHistory", JSON.stringify(list)).
SavedHistory(list) == [has |-> TRUE, items |-> list]

\* The response of a request that has none yet.
NoChatResponse == [http |-> 0, threadId |-> Absent, reply |-> Absent, error |-> Absent]

\* What localStorage holds when the page is opened.
StoredAtMount ==
  { EmptyStorage,
    [chatHistory |-> SavedHistory(<<UserMessage("hi"), AssistantMessage("reply")>>),
     threadId |-> SavedThreadId] }

\* The load effect (ChatApp.tsx:633-673) on the initial state.
loadFromStorage(storage) ==
  [NoClient EXCEPT
     !.messages = IF storage.chatHistory.has /\ Len(storage.chatHistory.items) > 0
                    THEN storage.chatHistory.items ELSE @,
     !.threadId = IF Falsy(storage.threadId) THEN @ ELSE storage.threadId]

ClientInit ==
  /\ localStorage \in StoredAtMount
  /\ client = loadFromStorage(localStorage)
  /\ view = client
  /\ requests = <<>>
  /\ cleared = FALSE
  /\ ChatIdle
  /\ SearchIdle
  /\ AuthIdle

\* The component renders: its handlers now read the current state.
Render ==
  /\ view # client
  /\ view' = client
  /\ UNCHANGED <<client, localStorage, requests, cleared, chatVars, searchVars, authVars>>

\* handleInputChange (ChatApp.tsx:678-691): the user types a message.
TypeInput ==
  /\ client.input = ""
  /\ client' = [client EXCEPT !.input = "hi"]
  /\ UNCHANGED <<view, localStorage, requests, cleared, chatVars, searchVars, authVars>>

\* sendMessage up to the post (ChatApp.tsx:814-853), called by the Enter key
\* or by the Send button when it is not disabled.
SendMessage ==
  /\ Len(requests) < MaxRequests
  /\ ~(view.activeRun \/ view.input = "")
  /\ LET newMessages == Append(view.messages, UserMessage(view.input))
     IN  /\ client' = [client EXCEPT !.activeRun = TRUE, !.loading = TRUE,
                                     !.messages = newMessages, !.input = ""]
         /\ localStorage' = [localStorage EXCEPT !.chatHistory = SavedHistory(newMessages)]
         /\ requests' = Append(requests,
                               [threadId |-> view.threadId,
                                newMessages |-> newMessages,
                                stage |-> "sent",
                                thread |-> Absent,
                                run |-> "none",
                                runs |-> 0,
                                response |-> NoChatResponse])
  /\ cleared' = FALSE
  /\ UNCHANGED <<view, chatVars, searchVars, authVars>>

\* The Clear button (ChatApp.tsx:1315-1328).
ClearChat ==
  /\ client' = [client EXCEPT !.messages = <<>>, !.threadId = Null]
  /\ localStorage' = EmptyStorage
  /\ cleared' = TRUE
  /\ \/ cleared = FALSE
     \/ client' # client
     \/ localStorage' # localStorage
  /\ UNCHANGED <<view, requests, chatVars, searchVars, authVars>>

\* route.ts:39-73 for a request: the thread of the body is used, or one is
\* created when the body has none; the message is added and the run is
\* created.  The handler looks at no other run of the thread.
RequestStart ==
  \E i \in 1..Len(requests) :
    /\ requests[i].stage = "sent"
    /\ requests' = [requests EXCEPT
                      ![i].stage = "polling",
                      ![i].thread = IF Falsy(requests[i].threadId) THEN NewThreadOf(i)
                                    ELSE requests[i].threadId,
                      ![i].run = "active",
                      ![i].runs = @ + 1]
    /\ UNCHANGED <<client, view, localStorage, cleared, chatVars, searchVars, authVars>>

\* The remote service ends the run of a request.
RunEnds ==
  \E i \in 1..Len(requests) :
    /\ requests[i].run = "active"
    /\ requests' = [requests EXCEPT ![i].run = "terminal"]
    /\ UNCHANGED <<client, view, localStorage, cleared, chatVars, searchVars, authVars>>

\* route.ts:203-238 for a request: the run has ended and the reply is
\* returned.
RequestReply ==
  \E i \in 1..Len(requests) :
    /\ requests[i].stage = "polling"
    /\ requests[i].run = "terminal"
    /\ requests' = [requests EXCEPT
                      ![i].stage = "responded",
                      ![i].response = [http |-> 200, threadId |-> requests[i].thread,
                                       reply |-> "reply", error |-> Absent]]
    /\ UNCHANGED <<client, view, localStorage, cleared, chatVars, searchVars, authVars>>

\* route.ts:175-201 for a request: the polls are used up, the cancel
\* call is made and may fail, and the timeout is returned.
RequestTimeout ==
  \E i \in 1..Len(requests) :
    /\ requests[i].stage = "polling"
    /\ requests[i].run = "active"
    /\ \E cancelled \in BOOLEAN :
         requests' = [requests EXCEPT
                        ![i].stage = "responded",
                        ![i].run = IF cancelled THEN "terminal" ELSE "active",
                        ![i].response = [http |-> 504, threadId |-> requests[i].thread,
                                         reply |-> Absent, error |-> "Request timeout"]]
    /\ UNCHANGED <<client, view, localStorage, cleared, chatVars, searchVars, authVars>>

\* route.ts:26-28 and 240-250 for a request: a credential is missing
\* or a remote call throws, and the error is returned; the run is left as
\* it is.
RequestError ==
  \E i \in 1..Len(requests) :
    /\ requests[i].stage \in {"sent", "polling"}
    /\ requests' = [requests EXCEPT
                      ![i].stage = "responded",
                      ![i].response = [http |-> 500, threadId |-> Absent,
                                       reply |-> Absent, error |-> "Network Error"]]
    /\ UNCHANGED <<client, view, localStorage, cleared, chatVars, searchVars, authVars>>

\* ReceiveResponse that also takes the threadId of a timeout response.
ReceiveResponseAdoptsTimeoutThread ==
  \E i \in 1..Len(requests) :
    /\ requests[i].stage = "responded"
    /\ LET res == requests[i].response
           ok == res.http = 200 /\ Falsy(res.error)
           named == ~Falsy(res.threadId)
           shown == Append(requests[i].newMessages,
                           IF ok THEN AssistantMessage(res.reply)
                           ELSE ErrorChatMessage(res.error))
       IN  /\ client' = [client EXCEPT
                           !.threadId = IF named THEN res.threadId ELSE @,
                           !.messages = shown,
                           !.loading = FALSE,
                           !.activeRun = FALSE]
           /\ localStorage' = [chatHistory |-> SavedHistory(shown),
                               threadId |-> IF named THEN res.threadId
                                            ELSE localStorage.threadId]
    /\ requests' = [requests EXCEPT ![i].stage = "received"]
    /\ UNCHANGED <<view, cleared, chatVars, searchVars, authVars>>

\* sendMessage after the post (ChatApp.tsx:855-902) for a request:
\* axios resolves for a 2xx response and rejects for any other.
ReceiveResponse ==
  \E i \in 1..Len(requests) :
    /\ requests[i].stage = "responded"
    /\ LET res == requests[i].response
           ok == res.http = 200 /\ Falsy(res.error)
           shown == Append(requests[i].newMessages,
                           IF ok THEN AssistantMessage(res.reply)
                           ELSE ErrorChatMessage(res.error))
       IN  /\ client' = [client EXCEPT
                           !.threadId = IF ok THEN res.threadId ELSE @,
                           !.messages = shown,
                           !.loading = FALSE,
                           !.activeRun = FALSE]
           /\ localStorage' = [chatHistory |-> SavedHistory(shown),
                               threadId |-> IF ok THEN res.threadId
                                            ELSE localStorage.threadId]
    /\ requests' = [requests EXCEPT ![i].stage = "received"]
    /\ UNCHANGED <<view, cleared, chatVars, searchVars, authVars>>

ClientNext ==
  \/ Render
  \/ TypeInput
  \/ SendMessage
  \/ ClearChat
  \/ RequestStart
  \/ RunEnds
  \/ RequestReply
  \/ RequestTimeout
  \/ RequestError
  \/ ReceiveResponse

ClientSpec == ClientInit /\ [][ClientNext]_vars

\* C23. At most one run is active on a session at any time: a chat request
\* creates one run on its thread and never a second, and of the requests
\* that use the same thread no two have a run that has not ended.
C23_OneActiveRun ==
  /\ \A i \in 1..Len(requests) :
       /\ requests[i].runs <= 1
       /\ requests[i].run # "none" => requests[i].runs = 1
  /\ \A i, j \in 1..Len(requests) :
       (i < j /\ requests[i].thread # Absent /\ requests[i].thread = requests[j].thread) =>
         ~(requests[i].run = "active" /\ requests[j].run = "active")

\* C24. Clear Chat resets conversation and storage: the step of Clear Chat
\* leaves the message list empty, the client threadId null and localStorage
\* without chatHistory and threadId; the next message sent after it from the
\* rendered page carries no threadId, and a request without threadId gets a
\* new thread.
C24_ClearChatResets ==
  [][/\ ClearChat =>
          /\ client'.messages = <<>>
          /\ client'.threadId = Null
          /\ ~localStorage'.chatHistory.has
          /\ localStorage'.threadId = Absent
     /\ (cleared /\ view = client /\ Len(requests') = Len(requests) + 1) =>
          Falsy(requests'[Len(requests')].threadId)
     /\ \A i \in 1..Len(requests) :
          (/\ Len(requests') = Len(requests)
           /\ requests[i].stage = "sent"
           /\ requests'[i].stage = "polling"
           /\ Falsy(requests[i].threadId)) =>
            requests'[i].thread = NewThreadOf(i)]_vars

\* The maxRetries-th status fetch returned requires_action with tool calls:
\* the batch is being serviced or posted, or the post returned (the local
\* status is in_progress again) or threw.
ToolRoundOnLastPoll ==
  /\ FetchesReturned = maxRetries
  /\ lastFetched = "requires_action"
  /\ \/ Len(toolCalls) > 0
     \/ status = "in_progress"
     \/ thrown.kind = "submitToolOutputs"

\* C31 as stated: when the maxRetries-th status fetch has returned
\* requires_action with tool calls, the request ends with the batch
\* submitted, one cancel call and the timeout outcome.
C31_Original ==
  (ToolRoundOnLastPoll /\ pc = "done") =>
    /\ calls["submitToolOutputs"] = rounds
    /\ calls["cancelRun"] = 1
    /\ response.http = 504

\* C31. Tool round on the last permitted poll: when the maxRetries-th status
\* fetch has returned requires_action with tool calls, every tool call is
\* serviced and the batch is posted; when the post returns the poll is
\* counted, no further status fetch is made, one cancel call is issued and
\* the answer is the timeout outcome; when the post throws the answer is
\* HTTP 500 and no cancel call is issued.
C31_ToolRoundOnLastPoll ==
  /\ calls["fetchStatus"] <= maxRetries
  /\ ToolRoundOnLastPoll =>
       /\ pc \in {"dispatch", "submit", "loop", "done"}
       /\ calls["fetchStatus"] = maxRetries
       /\ calls["listMessages"] = 0
       /\ pc = "dispatch" =>
            /\ calls["submitToolOutputs"] = rounds - 1
            /\ calls["cancelRun"] = 0
       /\ pc = "submit" =>
            /\ \A i \in 1..Len(toolCalls) : toolOutputs[i] # Pending
            /\ calls["submitToolOutputs"] = rounds
            /\ calls["cancelRun"] = 0
       /\ pc = "loop" =>
            /\ status = "in_progress"
            /\ retries = maxRetries
            /\ ~LoopCondition
            /\ calls["submitToolOutputs"] = rounds
            /\ calls["cancelRun"] = 0
       /\ (pc = "done" /\ thrown = NoThrow) =>
            /\ calls["submitToolOutputs"] = rounds
            /\ calls["cancelRun"] = 1
            /\ response.http = 504
            /\ response.threadId = currentThreadId
       /\ (pc = "done" /\ thrown # NoThrow) =>
            /\ thrown.kind = "submitToolOutputs"
            /\ calls["submitToolOutputs"] = rounds
            /\ calls["cancelRun"] = 0
            /\ response.http = 500

\* A request whose last permitted fetch returned tool calls, answered with
\* the timeout after the batch was submitted.
C31_Witness ==
  /\ pc = "done"
  /\ calls["fetchStatus"] = maxRetries
  /\ lastFetched = "requires_action"
  /\ status = "in_progress"
  /\ rounds >= 1
  /\ calls["submitToolOutputs"] = rounds
  /\ calls["cancelRun"] = 1
  /\ response.http = 504

\* C32. requires_action with an empty (or absent) tool-call list: the fetch
\* that returns it starts no tool round (no dispatch, no search, no submit
\* call), leaves the local status requires_action, counts the poll, and the
\* loop goes on while polls are left; a request that ends with the local
\* status still requires_action has made maxRetries status fetches and one
\* cancel call and answers with the timeout outcome.
C32_EmptyToolCallList ==
  [][ /\ (/\ pc = "fetch"
          /\ pc' # "done"
          /\ lastFetched' = "requires_action"
          /\ toolCalls' = <<>>) =>
           /\ pc' = "loop"
           /\ status' = "requires_action"
           /\ retries' = retries + 1
           /\ rounds' = rounds
           /\ toolOutputs' = <<>>
           /\ searched' = {}
           /\ calls'["submitToolOutputs"] = calls["submitToolOutputs"]
           /\ calls'["fetchStatus"] = calls["fetchStatus"] + 1
           /\ retries' < maxRetries => LoopCondition'
      /\ (/\ pc # "done"
          /\ pc' = "done"
          /\ status' = "requires_action"
          /\ thrown' = NoThrow) =>
           /\ calls'["fetchStatus"] = maxRetries
           /\ calls'["submitToolOutputs"] = rounds'
           /\ calls'["cancelRun"] = 1
           /\ calls'["listMessages"] = 0
           /\ response'.http = 504
    ]_vars

\* A request all of whose status fetches returned requires_action without
\* tool calls, answered with the timeout.
C32_Witness ==
  /\ pc = "done"
  /\ status = "requires_action"
  /\ lastFetched = "requires_action"
  /\ rounds = 0
  /\ calls["submitToolOutputs"] = 0
  /\ calls["fetchStatus"] = maxRetries
  /\ calls["cancelRun"] = 1
  /\ response.http = 504

\* C33. No compensation on transport failure: once a remote assistant call
\* has thrown, the request has answered HTTP 500, no cancel call was issued
\* and no step of the handler is left to take, so no further remote call is
\* made and none is repeated; the step in which the call throws issues that
\* call and no other.
C33_NoCompensation ==
  /\ [](thrown.kind \in CallKinds =>
         /\ pc = "done"
         /\ response.http = 500
         /\ calls["cancelRun"] = 0
         /\ cancelResult = Absent
         /\ ~ENABLED Next)
  /\ [][(thrown = NoThrow /\ thrown'.kind \in CallKinds) =>
           /\ \A k \in CallKinds \ {thrown'.kind} : calls'[k] = calls[k]
           /\ calls'[thrown'.kind] <= calls[thrown'.kind] + 1
           /\ searched' \subseteq searched
       ]_vars

\* A status fetch threw after a tool round, while the run had not ended: the
\* request answered 500 without a cancel call.
C33_Witness ==
  /\ pc = "done"
  /\ thrown.kind = "fetchStatus"
  /\ rounds >= 1
  /\ status = "in_progress"
  /\ ~terminalFetched
  /\ calls["cancelRun"] = 0
  /\ response.http = 500

\* C34. The cache directive depends on the final run status only: every
\* HTTP 200 response of a completed run carries
\* "s-maxage=120, stale-while-revalidate=300", also when its reply is the
\* fallback "No valid response.", and every HTTP 200 response of a run that
\* failed or was cancelled carries "no-cache".
C34_CacheByStatusOnly ==
  (pc = "done" /\ response.http = 200) =>
    /\ status \in TerminalStatuses
    /\ status = "completed" =>
         response.cache = "s-maxage=120, stale-while-revalidate=300"
    /\ status # "completed" => response.cache = "no-cache"

\* A completed run without an assistant message, answered with the fallback
\* reply and the cacheable directive.
C34_Witness ==
  /\ pc = "done"
  /\ status = "completed"
  /\ response.http = 200
  /\ response.reply = <<"No valid response.">>
  /\ response.cache = "s-maxage=120, stale-while-revalidate=300"

\* C38. The two remaining reply texts are never sent: no response carries
\* the reply "No response received." or the reply "Unexpected error
\* occurred. Please try again."; a run that leaves the loop with a status
\* other than completed, failed and cancelled is answered with the timeout
\* response, which has no reply.
C38_UnsentReplies ==
  /\ response.reply # <<"No response received.">>
  /\ response.reply # <<"Unexpected error occurred. Please try again.">>
  /\ (/\ pc = "done"
      /\ runId # Absent
      /\ thrown = NoThrow
      /\ status \notin {"completed", "failed", "cancelled"}) =>
       /\ response.http = 504
       /\ response.reply = <<>>
       /\ calls["cancelRun"] = 1

\* A run fetched as expired, a status the handler does not name, answered
\* with the timeout response.
C38_Witness ==
  /\ pc = "done"
  /\ lastFetched = "expired"
  /\ status = "expired"
  /\ response.http = 504
  /\ response.reply = <<>>

\* The requests that were posted and whose response the client has not yet
\* taken.
InFlight == { i \in 1..Len(requests) : requests[i].stage # "received" }

\* C35. Client single-flight: whatever the user does, the client never has
\* two chat requests in flight at the same time.
C35_SingleFlight == Cardinality(InFlight) <= 1

\* C36. Client session persistence: the step that takes an HTTP 200 response
\* sets the client's threadId and localStorage threadId to the threadId of
\* the response; the step that takes an HTTP 500 or 504 response leaves both
\* as they were; a message sent from a page that shows the client's threadId
\* carries that threadId.
C36_SessionPersistence ==
  [][ /\ \A i \in 1..Len(requests) :
           (/\ Len(requests') = Len(requests)
            /\ requests[i].stage = "responded"
            /\ requests'[i].stage = "received") =>
             IF requests[i].response.http = 200
               THEN /\ client'.threadId = requests[i].response.threadId
                    /\ localStorage'.threadId = requests[i].response.threadId
                    /\ requests[i].response.threadId = requests[i].thread
                    /\ ~Falsy(client'.threadId)
               ELSE /\ requests[i].response.http \in {500, 504}
                    /\ client'.threadId = client.threadId
                    /\ localStorage'.threadId = localStorage.threadId
      /\ (Len(requests') = Len(requests) + 1 /\ view.threadId = client.threadId) =>
           requests'[Len(requests')].threadId = client.threadId
    ]_vars

\* A first turn timed out: its response named the thread created for it, and
\* the client is left without a threadId.
C36_Witness ==
  /\ Len(requests) = 1
  /\ Falsy(requests[1].threadId)
  /\ requests[1].stage = "received"
  /\ requests[1].response.http = 504
  /\ requests[1].response.threadId = NewThreadOf(1)
  /\ client.threadId = Null
  /\ localStorage.threadId = Absent

\* C37. Clear Chat is durable against an in-flight request: when the
\* response of a request arrives after Clear was clicked, with no message
\* sent since, the message list stays empty, the client's threadId stays
\* null and localStorage stays without chatHistory and threadId.
C37_ClearDurable ==
  [][\A i \in 1..Len(requests) :
       (/\ cleared
        /\ Len(requests') = Len(requests)
        /\ requests[i].stage = "responded"
        /\ requests'[i].stage = "received") =>
         /\ client'.messages = <<>>
         /\ client'.threadId = Null
         /\ ~localStorage'.chatHistory.has
         /\ localStorage'.threadId = Absent
    ]_vars

====
